---------------------------- MODULE Spec2Model ----------------------------
(***************************************************************************)
(* Model of the SysTick-based 64-bit timer (systick-timer/src/timer.rs):   *)
(* the wrap counters, the interrupt handler, the read protocol now(), the  *)
(* frequency scaler, and the drivers of the hosted stress test.            *)
(*                                                                         *)
(* TLC's integers are 32 bits wide, the program's are 32, 64 and 128 bits  *)
(* wide.  Every u32/u64/u128 value of the program is therefore held as an  *)
(* unbounded natural number in limb form (little-endian digits in base     *)
(* 2^15, no leading zero digit, zero is the empty sequence), and the       *)
(* program's widths are applied explicitly with Low(x, bits).              *)
(***************************************************************************)
EXTENDS Integers, Sequences, FiniteSets, TLC

(***************************************************************************)
(* Natural numbers in limb form.                                           *)
(***************************************************************************)
LimbBits == 15

RECURSIVE Pow2Int(_)
Pow2Int(n) == IF n = 0 THEN 1 ELSE 2 * Pow2Int(n - 1)

Base == Pow2Int(LimbBits)

RECURSIVE Norm(_)
Norm(a) ==
    IF a = <<>> THEN <<>>
    ELSE IF a[Len(a)] = 0 THEN Norm(SubSeq(a, 1, Len(a) - 1))
    ELSE a

RECURSIVE FromInt(_)
FromInt(n) == IF n = 0 THEN <<>> ELSE <<n % Base>> \o FromInt(n \div Base)

RECURSIVE ToInt(_)
ToInt(a) == IF a = <<>> THEN 0 ELSE Head(a) + Base * ToInt(Tail(a))

Zero == <<>>
One == <<1>>

Digit(a, i) == IF i <= Len(a) THEN a[i] ELSE 0

RECURSIVE AddFrom(_, _, _, _)
AddFrom(a, b, i, c) ==
    IF i > Len(a) /\ i > Len(b)
    THEN (IF c = 0 THEN <<>> ELSE <<c>>)
    ELSE <<(Digit(a, i) + Digit(b, i) + c) % Base>>
         \o AddFrom(a, b, i + 1, (Digit(a, i) + Digit(b, i) + c) \div Base)

Add(a, b) == AddFrom(a, b, 1, 0)

Less(a, b) ==
    \/ Len(a) < Len(b)
    \/ /\ Len(a) = Len(b)
       /\ \E i \in 1..Len(a) :
            /\ a[i] < b[i]
            /\ \A j \in (i + 1)..Len(a) : a[j] = b[j]

Leq(a, b) == ~Less(b, a)

\* a - b for b <= a
RECURSIVE SubFrom(_, _, _, _)
SubFrom(a, b, i, c) ==
    IF i > Len(a) THEN <<>>
    ELSE <<(Digit(a, i) - Digit(b, i) - c + Base) % Base>>
         \o SubFrom(a, b, i + 1, IF Digit(a, i) - Digit(b, i) - c < 0 THEN 1 ELSE 0)

Sub(a, b) == Norm(SubFrom(a, b, 1, 0))

\* a * d + c for one digit d
RECURSIVE MulDigitFrom(_, _, _, _)
MulDigitFrom(a, d, i, c) ==
    IF i > Len(a)
    THEN (IF c = 0 THEN <<>> ELSE <<c>>)
    ELSE <<(a[i] * d + c) % Base>> \o MulDigitFrom(a, d, i + 1, (a[i] * d + c) \div Base)

MulDigit(a, d) == IF d = 0 THEN <<>> ELSE MulDigitFrom(a, d, 1, 0)

ShiftLimbs(a, k) == IF a = <<>> THEN <<>> ELSE [i \in 1..k |-> 0] \o a

RECURSIVE MulFrom(_, _, _)
MulFrom(a, b, j) ==
    IF j > Len(b) THEN <<>>
    ELSE Add(ShiftLimbs(MulDigit(a, b[j]), j - 1), MulFrom(a, b, j + 1))

Mul(a, b) == IF a = <<>> \/ b = <<>> THEN <<>> ELSE MulFrom(a, b, 1)

\* floor(a / d) for one digit d > 0, most significant digit first
RECURSIVE DivDigitFrom(_, _, _, _)
DivDigitFrom(a, d, i, r) ==
    IF i = 0 THEN <<>>
    ELSE DivDigitFrom(a, d, i - 1, (r * Base + a[i]) % d)
         \o <<(r * Base + a[i]) \div d>>

\* a mod d for one digit d > 0
RECURSIVE ModDigitFrom(_, _, _, _)
ModDigitFrom(a, d, i, r) ==
    IF i = 0 THEN r ELSE ModDigitFrom(a, d, i - 1, (r * Base + a[i]) % d)

\* floor(a / 2^n)
ShiftR(a, n) ==
    LET k == n \div LimbBits
        r == n % LimbBits
        dropped == IF k >= Len(a) THEN <<>> ELSE SubSeq(a, k + 1, Len(a))
    IN  IF r = 0 THEN dropped
        ELSE Norm(DivDigitFrom(dropped, Pow2Int(r), Len(dropped), 0))

\* a * 2^n
ShiftL(a, n) == ShiftLimbs(MulDigit(a, Pow2Int(n % LimbBits)), n \div LimbBits)

Pow2(n) == ShiftL(One, n)

\* a mod 2^bits: the low `bits` bits of a
Low(a, bits) ==
    LET k == bits \div LimbBits
        r == bits % LimbBits
    IN  IF Len(a) <= k THEN a
        ELSE Norm(SubSeq(a, 1, k) \o (IF r = 0 THEN <<>> ELSE <<a[k + 1] % Pow2Int(r)>>))

\* The largest digit d with d * b <= cur, for cur < Base * b, by binary search
RECURSIVE QuotDigit(_, _, _, _)
QuotDigit(cur, b, bit, acc) ==
    IF bit < 0 THEN acc
    ELSE IF Leq(MulDigit(b, acc + Pow2Int(bit)), cur)
         THEN QuotDigit(cur, b, bit - 1, acc + Pow2Int(bit))
         ELSE QuotDigit(cur, b, bit - 1, acc)

\* floor(a / b) and a mod b for b > 0: long division, most significant digit first
RECURSIVE DivModFrom(_, _, _, _, _)
DivModFrom(a, b, i, r, q) ==
    IF i = 0 THEN [q |-> Norm(q), r |-> r]
    ELSE LET cur == Norm(<<a[i]>> \o r)
             d == QuotDigit(cur, b, LimbBits - 1, 0)
         IN  DivModFrom(a, b, i - 1, Sub(cur, MulDigit(b, d)), <<d>> \o q)

DivMod(a, b) ==
    IF Len(b) = 1
    THEN [q |-> Norm(DivDigitFrom(a, b[1], Len(a), 0)),
          r |-> FromInt(ModDigitFrom(a, b[1], Len(a), 0))]
    ELSE DivModFrom(a, b, Len(a), <<>>, <<>>)

Div(a, b) == DivMod(a, b).q


(***************************************************************************)
(* Rust integer operations at their widths.                                *)
(***************************************************************************)
U32Max == Sub(Pow2(32), One)
U64Max == Sub(Pow2(64), One)

\* u32::wrapping_add(1)
WrappingInc32(x) == Low(Add(x, One), 32)

\* u64 `a + b` as the release build computes it (wraps)
WrappingAdd64(a, b) == Low(Add(a, b), 64)

\* u64::wrapping_mul
WrappingMul64(a, b) == Low(Mul(a, b), 64)

\* u64::saturating_mul, u64::saturating_add
SaturatingMul64(a, b) == LET p == Mul(a, b) IN IF Less(U64Max, p) THEN U64Max ELSE p
SaturatingAdd64(a, b) == LET t == Add(a, b) IN IF Less(U64Max, t) THEN U64Max ELSE t

\* u64::overflowing_mul: the wrapped product and the overflow flag
OverflowingMul64(a, b) ==
    LET p == Mul(a, b) IN [result |-> Low(p, 64), overflow |-> Less(U64Max, p)]

\* u64 `x << n` and `x >> n` as the build without overflow checks computes
\* them: bits shifted out are lost, and the shift amount is taken modulo 64
Shl64(x, n) == Low(ShiftL(x, n % 64), 64)
Shr64(x, n) == ShiftR(x, n % 64)

(***************************************************************************)
(* The timer.                                                              *)
(***************************************************************************)
VARIABLES
    inner_wraps,          \* Timer.inner_wraps: AtomicU32 (W_lo)
    outer_wraps,          \* Timer.outer_wraps: AtomicU32 (W_hi)
    reload_value,         \* Timer.reload_value
    multiplier,           \* Timer.multiplier
    shift,                \* Timer.shift
    current_systick,      \* hardware VAL (test double: current_systick)
    systick_has_wrapped,  \* hardware COUNTFLAG (test double)
    pendst_is_pending,    \* hardware PENDST (test double)
    tick_hz,              \* argument of new(): output frequency
    systick_freq,         \* argument of new(): source frequency
    pc,                   \* position of the observer inside now()
    in1, out1, val_before, in2, out2, is_pending, val_after, in3, out3,
    total_cycles,         \* now(): the cycle count of the returning iteration
    prev_cycles,          \* history (SpecUnit): W * (R + 1) + (R - VAL) at the call before that
    current_time,         \* observer: the latest now() result
    last_seen_time,       \* observer: the now() result before that
    reloads,              \* history: hardware reloads since the initial state
    unserviced,           \* history: reloads since the handler last ran
    missed,               \* history: reloads no handler run will ever count
    isr,                  \* systick_handler invocations in progress: position and loaded values
    diagnosis,            \* diagnose_timing_violation: 0 for None, n for Some(n)
    sampled               \* history: the reloads there had been at now()'s two VAL reads

timer == <<inner_wraps, outer_wraps, reload_value, multiplier, shift>>
hardware == <<current_systick, systick_has_wrapped, pendst_is_pending>>
config == <<tick_hz, systick_freq>>
locals == <<in1, out1, val_before, in2, out2, is_pending, val_after, in3, out3>>
readings == <<total_cycles, prev_cycles, current_time, last_seen_time>>
observer == <<pc, readings>>
history == <<reloads, unserviced, missed>>
service == <<isr, diagnosis>>
vars == <<timer, hardware, config, locals, observer, history, service, sampled>>

\* (out << 32) | in
WrapCount(in, out) == Add(ShiftL(out, 32), in)

\* compute_shift: the loop over shift, with the multiplier of the current shift
RECURSIVE ComputeShiftFrom(_, _, _)
ComputeShiftFrom(f_out, f_src, s) ==
    IF Div(Shl64(f_out, s), f_src) = Zero /\ s < 64
    THEN ComputeShiftFrom(f_out, f_src, s + 1)
    ELSE s

ComputeShift(f_out, f_src) == ComputeShiftFrom(f_out, f_src, 32)

\* A new() that always shifts by 32
ComputeMultiplierFixedShift(f_out, f_src) == Div(Shl64(f_out, 32), f_src)

\* new(): the multiplier
ComputeMultiplier(f_out, f_src) == Div(Shl64(f_out, ComputeShift(f_out, f_src)), f_src)

\* new(): the checks that panic
NewAccepts(f_out, reload, f_src) ==
    /\ ~(reload > Pow2Int(24) - 1)
    /\ reload # 0
    /\ f_src # Zero
    /\ ComputeShift(f_out, f_src) < 64

\* A now() that does not compare its two VAL reads
WrapOccurredPendstOnly(pending, v_before, v_after) == pending

\* A now() that does not look at PENDST
WrapOccurredNoPendst(pending, v_before, v_after) == v_after > v_before

\* A read of PENDST that clears it, as a read of COUNTFLAG does
PendstAfterReadClears(pending) == FALSE

\* is_systick_pending: PENDST after the read
PendstAfterRead(pending) == pending

\* now(): wrap_occurred
WrapOccurred(pending, v_before, v_after) == pending \/ v_after > v_before

\* now(): `wraps_pre + 1` leaves u64: a panic with overflow checks, a wrap to
\* 0 without
WrapsPlusOneOverflows(wraps_pre, wrap) == wrap /\ wraps_pre = U64Max

\* A now() that sees the wrap and does not add it
CompensatedWrapsNone(wraps_pre, wrap) == wraps_pre

\* A now() that adds two wraps for a pending one
CompensatedWrapsTwo(wraps_pre, wrap) ==
    IF wrap THEN WrappingAdd64(wraps_pre, FromInt(2)) ELSE wraps_pre

\* now(): wraps_u64
CompensatedWraps(wraps_pre, wrap) ==
    IF wrap THEN WrappingAdd64(wraps_pre, One) ELSE wraps_pre

\* A now() that takes a wrap to be R cycles long
TotalCyclesNoPlusOne(wraps_u64, reload, final_val) ==
    SaturatingAdd64(SaturatingMul64(wraps_u64, FromInt(reload)),
                    FromInt(reload - final_val))

\* A now() that takes VAL to count up
TotalCyclesValUp(wraps_u64, reload, final_val) ==
    SaturatingAdd64(SaturatingMul64(wraps_u64, FromInt(reload + 1)), FromInt(final_val))

\* A now() that counts the reload itself as an elapsed cycle
TotalCyclesOffByOne(wraps_u64, reload, final_val) ==
    SaturatingAdd64(SaturatingMul64(wraps_u64, FromInt(reload + 1)),
                    FromInt(reload + 1 - final_val))

\* now(): total_cycles
TotalCycles(wraps_u64, reload, final_val) ==
    SaturatingAdd64(SaturatingMul64(wraps_u64, FromInt(reload + 1)),
                    FromInt(reload - final_val))

\* now(): the 64-bit path of the scaling
FastPath(product, s) == Shr64(product, s)

\* A 128-bit path that narrows the product to 64 bits before the shift
WidePathNarrowFirst(cycles, m, s) == ShiftR(Low(Mul(cycles, m), 64), s)

\* now(): the 128-bit path of the scaling
WidePath(cycles, m, s) == Low(ShiftR(Low(Mul(cycles, m), 128), s), 64)

\* A now() without the 128-bit path
ScaleFastOnly(cycles, m, s) == FastPath(OverflowingMul64(cycles, m).result, s)

\* now(): scale to ticks
Scale(cycles, m, s) ==
    LET r == OverflowingMul64(cycles, m)
    IN  IF ~r.overflow THEN FastPath(r.result, s) ELSE WidePath(cycles, m, s)

\* A now() that computes with the first VAL read
SnapshotCyclesValBefore(wraps_pre, v_before, pending, v_after) ==
    TotalCycles(CompensatedWraps(wraps_pre, WrapOccurred(pending, v_before, v_after)),
                reload_value, v_before)

\* now(): the cycle count of an iteration that passed both retry checks
SnapshotCycles(wraps_pre, v_before, pending, v_after) ==
    TotalCycles(CompensatedWraps(wraps_pre, WrapOccurred(pending, v_before, v_after)),
                reload_value, v_after)


\* Reference arithmetic of the claims, on unbounded naturals.
\* floor(c * f_out / f_src)
FloorRatio(c, f_out, f_src) == Div(Mul(c, f_out), f_src)

\* floor(c * m / 2^s) reduced to 64 bits
FloorShift(c, m, s) == Low(ShiftR(Mul(c, m), s), 64)

\* w * (R + 1) + (R - v), not saturated
CyclesAt(w, v) == Add(Mul(w, FromInt(reload_value + 1)), FromInt(reload_value - v))

\* The wrap count and the unsaturated cycle count of the returning call
ReadWraps == WrapCount(in1, out1)
ReadCycles ==
    CyclesAt(Add(ReadWraps, IF is_pending THEN One ELSE Zero), val_after)

\* A handler that counts an interrupt twice
HandlerInnerTwice(inner) == WrappingInc32(WrappingInc32(inner))

\* systick_handler: the value stored to inner_wraps
HandlerInner(inner) == WrappingInc32(inner)

\* A handler that never carries
HandlerOuterNoCarry(inner, outer) == outer

\* A handler whose outer counter stops at 2^32 - 1 instead of wrapping
HandlerOuterSaturating(inner, outer) ==
    IF inner = U32Max /\ outer # U32Max THEN WrappingInc32(outer) ELSE outer

\* A handler that carries on every invocation
HandlerOuterAlways(inner, outer) == WrappingInc32(outer)

\* systick_handler: the value outer_wraps holds afterwards
HandlerOuter(inner, outer) == IF inner = U32Max THEN WrappingInc32(outer) ELSE outer

\* A read of the control register that leaves COUNTFLAG as it was
CountflagReadKeeps(flag) == <<flag, flag>>

\* read_systick_countflag: the value returned and COUNTFLAG after the read
CountflagRead(flag) == <<flag, FALSE>>

\* systick_handler, run to completion
SystickHandler ==
    /\ systick_has_wrapped' = CountflagRead(systick_has_wrapped)[2]
    /\ inner_wraps' = HandlerInner(inner_wraps)
    /\ outer_wraps' = HandlerOuter(inner_wraps, outer_wraps)
    /\ UNCHANGED <<reload_value, multiplier, shift>>

\* Timer::new followed by the stores a caller makes before the first interrupt
Construct(f_out, reload, f_src, w0, val0) ==
    /\ NewAccepts(f_out, reload, f_src)
    /\ inner_wraps = Low(w0, 32)
    /\ outer_wraps = ShiftR(w0, 32)
    /\ reload_value = reload
    /\ multiplier = ComputeMultiplier(f_out, f_src)
    /\ shift = ComputeShift(f_out, f_src)
    /\ current_systick = val0
    /\ systick_has_wrapped = FALSE
    /\ pendst_is_pending = FALSE
    /\ tick_hz = f_out
    /\ systick_freq = f_src

\* The handler invocations a caller may have in progress at once
Invocation == 1..2

\* No systick_handler invocation in progress, nothing diagnosed
ServiceInit ==
    /\ isr = [i \in Invocation |->
                 [pc |-> "idle", flag |-> FALSE, inner |-> Zero, outer |-> Zero]]
    /\ diagnosis = 0
    /\ sampled = <<0, 0>>

\* No now() call made yet: its locals and the observed readings
LocalsInit ==
    /\ in1 = Zero /\ out1 = Zero /\ val_before = 0
    /\ in2 = Zero /\ out2 = Zero
    /\ is_pending = FALSE /\ val_after = 0
    /\ in3 = Zero /\ out3 = Zero
    /\ total_cycles = Zero
    /\ prev_cycles = Zero
    /\ current_time = Zero
    /\ last_seen_time = Zero
    /\ ServiceInit

ObserverInit == pc = "in1" /\ LocalsInit

(***************************************************************************)
(* Bounds of the model.                                                    *)
(***************************************************************************)
SmallReload == 2     \* reload value of the interleaving model
MaxReloads == 2      \* hardware reloads explored from an initial state

(***************************************************************************)
(* Spec: the concurrency model.  The hardware counts down and reloads, the *)
(* SysTick exception runs the handler to completion when PENDST is set,    *)
(* and one observer calls now() in a loop; the observer is interleaved     *)
(* with the other two at each of its loads.  The hardware does not reload  *)
(* while PENDST is set (at most one wrap awaits service).                  *)
(***************************************************************************)
\* Output and source frequency pairs of the interleaving model
RateSet == {<<1000, 1000>>, <<1000, 2000>>}

\* Wrap counts at which the exploration starts: a fresh timer and one that is
\* two interrupts short of the carry from inner_wraps into outer_wraps
StartWraps == {Zero, Sub(U32Max, One)}

Init ==
    /\ \E r \in RateSet, w0 \in StartWraps :
         Construct(FromInt(r[1]), SmallReload, FromInt(r[2]), w0, SmallReload)
    /\ ObserverInit
    /\ reloads = 0
    /\ unserviced = 0
    /\ missed = 0

\* Hardware: one source cycle while VAL > 0
HwCountDown ==
    /\ current_systick > 0
    /\ current_systick' = current_systick - 1
    /\ UNCHANGED <<timer, systick_has_wrapped, pendst_is_pending, config, sampled, service, locals,
                   observer, history>>

\* Hardware: the reload at VAL = 0, which sets PENDST
HwReload ==
    /\ current_systick = 0
    /\ reloads < MaxReloads
    /\ current_systick' = reload_value
    /\ pendst_is_pending' = TRUE
    /\ reloads' = reloads + 1
    /\ unserviced' = unserviced + 1
    /\ UNCHANGED <<timer, systick_has_wrapped, config, sampled, service, locals, observer, missed>>

\* Hardware of the concurrency model: no reload while a wrap awaits service
HwTick == HwCountDown \/ (~pendst_is_pending /\ HwReload)

\* The SysTick exception: entry clears PENDST, then the handler runs
IsrService ==
    /\ pendst_is_pending
    /\ pendst_is_pending' = FALSE
    /\ SystickHandler
    /\ unserviced' = 0
    /\ missed' = missed + (unserviced - 1)
    /\ UNCHANGED <<current_systick, config, sampled, service, locals, observer, reloads>>

\* A now() that retries whatever wrap count it re-reads
SnapshotTornAlways(wraps_pre, wraps_again) == TRUE

\* A now() that accepts whatever wrap count it re-reads
SnapshotTornNever(wraps_pre, wraps_again) == FALSE

\* now(): the retry tests wraps_pre != wraps_post and wraps_final != wraps_pre
SnapshotTorn(wraps_pre, wraps_again) == wraps_pre # wraps_again

\* now(): in1 = inner_wraps.load(), the first load of an iteration
LoadIn1 ==
    /\ pc \in {"in1", "ret"}
    /\ in1' = inner_wraps
    /\ out1' = Zero /\ val_before' = 0 /\ in2' = Zero /\ out2' = Zero
    /\ is_pending' = FALSE /\ val_after' = 0 /\ in3' = Zero /\ out3' = Zero
    /\ sampled' = <<0, 0>>
    /\ pc' = "out1"
    /\ UNCHANGED <<timer, hardware, config, service, readings, history>>

LoadOut1 ==
    /\ pc = "out1"
    /\ out1' = outer_wraps
    /\ pc' = "val_before"
    /\ UNCHANGED <<timer, hardware, config, sampled, service, in1, val_before, in2, out2, is_pending,
                   val_after, in3, out3, readings,
                   history>>

\* now(): val_before = get_syst()
ReadValBefore ==
    /\ pc = "val_before"
    /\ val_before' = current_systick
    /\ pc' = "in2"
    /\ UNCHANGED <<timer, hardware, config, service, in1, out1, in2, out2, is_pending,
                   val_after, in3, out3, readings,
                   history>>

LoadValBefore == ReadValBefore /\ UNCHANGED sampled

LoadIn2 ==
    /\ pc = "in2"
    /\ in2' = inner_wraps
    /\ pc' = "out2"
    /\ UNCHANGED <<timer, hardware, config, sampled, service, in1, out1, val_before, out2, is_pending,
                   val_after, in3, out3, readings,
                   history>>

\* now(): out2 = outer_wraps.load() and the first retry check
LoadOut2 ==
    /\ pc = "out2"
    /\ out2' = outer_wraps
    /\ pc' = IF SnapshotTorn(WrapCount(in1, out1), WrapCount(in2, outer_wraps))
             THEN "in1" ELSE "is_pending"
    /\ UNCHANGED <<timer, hardware, config, sampled, service, in1, out1, val_before, in2, is_pending,
                   val_after, in3, out3, readings,
                   history>>

LoadPending ==
    /\ pc = "is_pending"
    /\ is_pending' = pendst_is_pending
    /\ pendst_is_pending' = PendstAfterRead(pendst_is_pending)
    /\ pc' = "val_after"
    /\ UNCHANGED <<timer, current_systick, systick_has_wrapped, config, sampled, service, in1, out1,
                   val_before, in2, out2, val_after, in3, out3, readings, history>>

\* now(): val_after = get_syst()
ReadValAfter ==
    /\ pc = "val_after"
    /\ val_after' = current_systick
    /\ pc' = "in3"
    /\ UNCHANGED <<timer, hardware, config, service, in1, out1, val_before, in2, out2,
                   is_pending, in3, out3, readings,
                   history>>

LoadValAfter == ReadValAfter /\ UNCHANGED sampled

LoadIn3 ==
    /\ pc = "in3"
    /\ in3' = inner_wraps
    /\ pc' = "out3"
    /\ UNCHANGED <<timer, hardware, config, sampled, service, in1, out1, val_before, in2, out2,
                   is_pending, val_after, out3, readings, history>>

\* now(): out3 = outer_wraps.load(), the second retry check, and on a stable
\* snapshot the computation and the return to the observer
LoadOut3 ==
    /\ pc = "out3"
    /\ out3' = outer_wraps
    /\ IF SnapshotTorn(WrapCount(in1, out1), WrapCount(in3, outer_wraps))
       THEN /\ pc' = "in1"
            /\ UNCHANGED <<readings>>
       ELSE /\ pc' = "ret"
            /\ LET cycles == SnapshotCycles(WrapCount(in1, out1), val_before, is_pending,
                                            val_after)
               IN  /\ total_cycles' = cycles
                   /\ current_time' = Scale(cycles, multiplier, shift)
            /\ last_seen_time' = current_time
            /\ UNCHANGED prev_cycles
    /\ UNCHANGED <<timer, hardware, config, sampled, service, in1, out1, val_before, in2, out2,
                   is_pending, val_after, in3, history>>

NowStep ==
    \/ LoadIn1 \/ LoadOut1 \/ LoadValBefore \/ LoadIn2 \/ LoadOut2
    \/ LoadPending \/ LoadValAfter \/ LoadIn3 \/ LoadOut3

Next == HwTick \/ IsrService \/ NowStep

Spec == Init /\ [][Next]_vars


(***************************************************************************)
(* SpecStress: the three drivers of monotonicity_stress_test, each step    *)
(* atomic (the test holds its mutex for a whole step).  Nothing keeps the  *)
(* hardware driver from reloading again before the ISR driver has run.     *)
(***************************************************************************)
StressReload == 3       \* reload value of the stress model
MaxStressReloads == 3   \* hardware reloads explored from an initial state

StressRateSet == {<<1000, 1000>>, <<2000, 1000>>, <<1000, 2000>>}

StressInit ==
    /\ \E r \in StressRateSet, w0 \in StartWraps :
         Construct(FromInt(r[1]), StressReload, FromInt(r[2]), w0, StressReload)
    /\ ObserverInit
    /\ reloads = 0
    /\ unserviced = 0
    /\ missed = 0

\* hw_thread: one iteration
StressHw ==
    \/ HwCountDown
    \/ /\ reloads < MaxStressReloads
       /\ HwReload

\* isr_thread: one iteration that finds the interrupt pending
StressIsr == IsrService

\* A now() that reads the control register, which clears COUNTFLAG
CountflagAfterNowReadsCsr(flag) == FALSE

\* now(): COUNTFLAG after a call, which reads PENDST and VAL only
CountflagAfterNow(flag) == flag

\* The value now() returns when it runs without interruption in a state with
\* these counters, this VAL and this PENDST
NowValueAt(inner, outer, val, pending) ==
    Scale(SnapshotCycles(WrapCount(inner, outer), val, pending, val), multiplier, shift)

\* The value now() returns when it runs without interruption in this state
NowValue == NowValueAt(inner_wraps, outer_wraps, current_systick, pendst_is_pending)

\* app_thread: one iteration, now() under the mutex and the monotonicity record
StressNow ==
    /\ in1' = inner_wraps /\ in2' = inner_wraps /\ in3' = inner_wraps
    /\ out1' = outer_wraps /\ out2' = outer_wraps /\ out3' = outer_wraps
    /\ val_before' = current_systick
    /\ val_after' = current_systick
    /\ is_pending' = pendst_is_pending
    /\ total_cycles' =
         SnapshotCycles(WrapCount(inner_wraps, outer_wraps), current_systick,
                        pendst_is_pending, current_systick)
    /\ current_time' = Scale(total_cycles', multiplier, shift)
    /\ last_seen_time' = current_time
    /\ UNCHANGED prev_cycles
    /\ pendst_is_pending' = PendstAfterRead(pendst_is_pending)
    /\ pc' = "ret"
    /\ systick_has_wrapped' = CountflagAfterNow(systick_has_wrapped)
    /\ UNCHANGED <<timer, current_systick, config, sampled, service, history>>

StressNext == StressHw \/ StressIsr \/ StressNow

SpecStress == StressInit /\ [][StressNext]_vars

\* history: the hardware reloaded while a reload was still awaiting service
Overrun == missed > 0 \/ unserviced > 1

(***************************************************************************)
(* SpecUnit: the unit tests' harness (TestTimer).  A timer is built for a  *)
(* configuration, its wrap counters are stored to as the tests do, and the *)
(* test then sets VAL and reads now(), or runs the handler and reloads.    *)
(***************************************************************************)
MaxTick == 2          \* distance from 0 and from the reload value of the VALs set
MaxInterrupts == 1    \* TestTimer::interrupt calls explored from an initial state

\* (tick_hz, reload_value, systick_freq) of the unit tests
UnitConfigs ==
    { <<FromInt(1000), 5, FromInt(1000)>>,
      <<FromInt(2000), 5, FromInt(1000)>>,
      <<FromInt(1000), 5, FromInt(2000)>>,
      <<FromInt(1000), 5, FromInt(12000)>>,
      <<FromInt(1000), 5, FromInt(1000000)>>,
      <<FromInt(1000000), 5, FromInt(1000)>>,
      <<FromInt(1000), 1, FromInt(1000)>>,
      <<FromInt(1000), 100, FromInt(1000)>>,
      <<FromInt(10000000), Pow2Int(24) - 1, FromInt(100000000)>>,
      <<FromInt(3), 5, Mul(FromInt(16), FromInt(1000000000))>> }

\* Wrap counts the tests store, and counts at which the cycle count leaves 64 bits
UnitWraps == {Zero, FromInt(4), FromInt(2560), U32Max, Pow2(62), U64Max}

\* The VALs a test sets: near the reload value and near zero
UnitTicks ==
    IF reload_value <= MaxTick THEN 0..reload_value
    ELSE (0..MaxTick) \cup ((reload_value - MaxTick)..reload_value)

UnitInit ==
    /\ \E c \in UnitConfigs, w0 \in UnitWraps : Construct(c[1], c[2], c[3], w0, 0)
    /\ ObserverInit
    /\ reloads = 0
    /\ unserviced = 0
    /\ missed = 0

\* set_syst(tick), then now() run to its return with nothing in between
SetTick(tick) ==
    /\ current_systick' = tick
    /\ in1' = inner_wraps /\ in2' = inner_wraps /\ in3' = inner_wraps
    /\ out1' = outer_wraps /\ out2' = outer_wraps /\ out3' = outer_wraps
    /\ val_before' = tick
    /\ val_after' = tick
    /\ is_pending' = pendst_is_pending
    /\ total_cycles' =
         SnapshotCycles(WrapCount(inner_wraps, outer_wraps), tick,
                        pendst_is_pending, tick)
    /\ prev_cycles' = IF pc = "ret" THEN ReadCycles ELSE Zero
    /\ current_time' = Scale(total_cycles', multiplier, shift)
    /\ last_seen_time' = current_time
    /\ pendst_is_pending' = PendstAfterRead(pendst_is_pending)
    /\ pc' = "ret"
    /\ UNCHANGED <<timer, systick_has_wrapped, config, sampled, service, history>>

\* TestTimer::set_tick
UnitSetTick == \E tick \in UnitTicks : SetTick(tick)

\* TestTimer::interrupt: systick_handler(), then set_syst(RELOAD)
UnitInterrupt ==
    /\ reloads < MaxInterrupts
    /\ SystickHandler
    /\ current_systick' = reload_value
    /\ reloads' = reloads + 1
    /\ UNCHANGED <<pendst_is_pending, config, sampled, service, locals, observer, unserviced, missed>>

UnitNext == UnitSetTick \/ UnitInterrupt

SpecUnit == UnitInit /\ [][UnitNext]_vars

(***************************************************************************)
(* SpecNew: the constructor.  Timer::new is called with arguments drawn    *)
(* from the sets below; it panics or returns an instance, and a returned   *)
(* instance is read once with now().  pc = "new" is the call not yet made, *)
(* pc = "panic" a call that panicked.                                      *)
(***************************************************************************)
\* tick_hz arguments: zero, the tests' rates, and rates of 2^32 Hz and above
NewTickHz ==
    { Zero, One, FromInt(3), FromInt(1000), FromInt(10000000),
      Pow2(32), Add(Pow2(32), FromInt(1000)),
      Mul(FromInt(5), FromInt(1000000000)) }

\* systick_freq arguments
NewSystickFreq ==
    { Zero, One, FromInt(1000), FromInt(12000), FromInt(1000000000),
      Mul(FromInt(16), FromInt(1000000000)), Add(Pow2(63), One), U64Max }

\* reload_value arguments: both ends of the accepted range and its neighbours
NewReloads == {0, 1, 5, Pow2Int(24) - 1, Pow2Int(24)}

\* A new() without the check for a zero reload value
NewPanicsZeroReloadAllowed(f_out, reload, f_src) ==
    \/ reload > Pow2Int(24) - 1
    \/ f_src = Zero

\* new(): the panics of every build: the two reload checks, and the division
\* by a zero systick_freq in compute_shift
NewPanics(f_out, reload, f_src) ==
    \/ reload > Pow2Int(24) - 1
    \/ reload = 0
    \/ f_src = Zero

\* compute_shift: the loop ran to shift = 64, so `tick_hz << shift` shifts a
\* u64 by 64: a panic with overflow checks, a shift by 0 without
NewShiftOverflows(f_out, f_src) == ComputeShift(f_out, f_src) = 64

NewInit ==
    /\ tick_hz \in NewTickHz
    /\ systick_freq \in NewSystickFreq
    /\ reload_value \in NewReloads
    /\ inner_wraps = Zero /\ outer_wraps = Zero
    /\ multiplier = Zero /\ shift = 0
    /\ current_systick = 0
    /\ systick_has_wrapped = FALSE
    /\ pendst_is_pending = FALSE
    /\ LocalsInit /\ pc = "new"
    /\ reloads = 0 /\ unserviced = 0 /\ missed = 0

\* new() panics on its arguments
NewPanic ==
    /\ pc = "new"
    /\ NewPanics(tick_hz, reload_value, systick_freq)
    /\ pc' = "panic"
    /\ UNCHANGED <<timer, hardware, config, sampled, service, locals, readings, history>>

\* new() panics on the shift by 64 (build with overflow checks)
NewShiftPanic ==
    /\ pc = "new"
    /\ ~NewPanics(tick_hz, reload_value, systick_freq)
    /\ NewShiftOverflows(tick_hz, systick_freq)
    /\ pc' = "panic"
    /\ UNCHANGED <<timer, hardware, config, sampled, service, locals, readings, history>>

\* new() returns the instance
NewReturn ==
    /\ pc = "new"
    /\ ~NewPanics(tick_hz, reload_value, systick_freq)
    /\ inner_wraps' = Zero
    /\ outer_wraps' = Zero
    /\ multiplier' = ComputeMultiplier(tick_hz, systick_freq)
    /\ shift' = ComputeShift(tick_hz, systick_freq)
    /\ current_systick' = 0
    /\ systick_has_wrapped' = FALSE
    /\ pendst_is_pending' = FALSE
    /\ pc' = "in1"
    /\ UNCHANGED <<reload_value, config, sampled, service, locals, readings, history>>

\* The first reading of the new instance: set_syst(tick), then now()
NewFirstNow == pc = "in1" /\ UnitSetTick

NewNext == NewPanic \/ NewShiftPanic \/ NewReturn \/ NewFirstNow

SpecNew == NewInit /\ [][NewNext]_vars

(***************************************************************************)
(* SpecEdge: the unit tests' steps at the far end of the counters' range.  *)
(* A test stores a wrap count, lets the counter wrap (set_syst(RELOAD) and *)
(* set_pendst_pending(true)), runs the handler, and reads now() at VAL = 0 *)
(* or VAL = R.  pc = "panic" is a now() that panicked.                     *)
(***************************************************************************)
\* (tick_hz, reload_value, systick_freq): 1:1, 1:2 and 1000:1
EdgeConfigs ==
    { <<FromInt(1000), 5, FromInt(1000)>>,
      <<FromInt(1000), 5, FromInt(2000)>>,
      <<FromInt(1000000), 5, FromInt(1000)>> }

\* The wrap count whose cycle count at R = 5, VAL = 0 is (13 * 2^61 - 1) / 125:
\* a thousand times it is 8 short of a multiple of 2^64
WrapsBelowMultiple ==
    Div(Div(Sub(Mul(Pow2(61), FromInt(13)), One), FromInt(125)), FromInt(6))

\* Wrap counts stored: below saturation, past it, and the last two of u64
EdgeWraps == {WrapsBelowMultiple, Pow2(62), Sub(U64Max, One), U64Max}

EdgeInit ==
    /\ \E c \in EdgeConfigs : Construct(c[1], c[2], c[3], Zero, 0)
    /\ ObserverInit
    /\ reloads = 0
    /\ unserviced = 0
    /\ missed = 0

\* inner_wraps.store, outer_wraps.store: a later wrap count
EdgeStore ==
    /\ pc # "panic"
    /\ ~pendst_is_pending
    /\ \E w \in EdgeWraps :
         /\ Less(WrapCount(inner_wraps, outer_wraps), w)
         /\ inner_wraps' = Low(w, 32)
         /\ outer_wraps' = ShiftR(w, 32)
    /\ UNCHANGED <<reload_value, multiplier, shift, hardware, config, sampled, service, locals,
                   observer, history>>

\* The counter wraps: set_syst(RELOAD), set_pendst_pending(true)
EdgeWrap ==
    /\ pc # "panic"
    /\ ~pendst_is_pending
    /\ current_systick' = reload_value
    /\ pendst_is_pending' = TRUE
    /\ UNCHANGED <<timer, systick_has_wrapped, config, sampled, service, locals, observer, history>>

\* The wrap is serviced: TestTimer::interrupt, set_pendst_pending(false)
EdgeInterrupt ==
    /\ pc # "panic"
    /\ pendst_is_pending
    /\ reloads < MaxInterrupts
    /\ SystickHandler
    /\ current_systick' = reload_value
    /\ pendst_is_pending' = FALSE
    /\ reloads' = reloads + 1
    /\ UNCHANGED <<config, sampled, service, locals, observer, unserviced, missed>>

\* set_syst(tick), then a now() that returns
EdgeSetTick ==
    /\ pc # "panic"
    /\ \E tick \in {0, reload_value} : SetTick(tick)

\* set_syst(tick), then a now() that panics in `wraps_pre + 1`
EdgeNowPanic ==
    /\ pc # "panic"
    /\ \E tick \in {0, reload_value} :
         /\ WrapsPlusOneOverflows(WrapCount(inner_wraps, outer_wraps),
                                  WrapOccurred(pendst_is_pending, tick, tick))
         /\ current_systick' = tick
    /\ pc' = "panic"
    /\ UNCHANGED <<timer, systick_has_wrapped, pendst_is_pending, config, sampled, service, locals,
                   readings, history>>

EdgeNext == EdgeStore \/ EdgeWrap \/ EdgeInterrupt \/ EdgeSetTick \/ EdgeNowPanic

SpecEdge == EdgeInit /\ [][EdgeNext]_vars

(***************************************************************************)
(* Claims.                                                                 *)
(***************************************************************************)

\* C1: under the concurrency model (hardware tick and SysTick service atomic,
\* now() interleaved with both at each of its loads, no reload while PENDST
\* is set) every now() result is >= the observer's previous result.
C1_Monotonic == Leq(last_seen_time, current_time)

\* C1 witness: a now() call returned with the wrap still unserviced, used the
\* compensation, and its result is above an earlier non-zero result.
C1_Witness ==
    /\ pc = "ret"
    /\ is_pending
    /\ unserviced = 1
    /\ Less(Zero, last_seen_time)
    /\ Less(last_seen_time, current_time)

\* C2 (as stated): for all schedules of the three stress-test drivers every
\* now() result is >= the observer's previous result.
C2_MonotonicAllSchedules == Leq(last_seen_time, current_time)

\* C2 (amended): for all schedules of the three stress-test drivers in which
\* the hardware driver has not reloaded while PENDST was still set, every
\* now() result is >= the observer's previous result.
C2_MonotonicNoOverrun == ~Overrun => Leq(last_seen_time, current_time)

\* C2 witness: the ISR driver was late by a whole countdown (the wrap was
\* still unserviced at VAL = 0), and the observer's reading advanced.
C2_Witness ==
    /\ pc = "ret"
    /\ ~Overrun
    /\ is_pending /\ val_after = 0
    /\ unserviced = 1
    /\ Less(last_seen_time, current_time)
    /\ Less(Zero, last_seen_time)

\* C3: a now() call that returns used a stable snapshot and returns
\* Scaler(Wf * (R + 1) + (R - v_after)), where Wf = W_pre + 1 if and only if
\* PENDST was read true or v_after > v_before, and Wf = W_pre otherwise;
\* v_before does not enter the result otherwise.  With R = 100 and
\* f_out = f_src the reading at VAL = 1 is 99 and the reading after the wrap
\* (VAL = 100, PENDST set, handler not run) is 101.
C3_Vectors ==
    LET m == ComputeMultiplier(FromInt(1000), FromInt(1000))
        sh == ComputeShift(FromInt(1000), FromInt(1000))
        t1 == Scale(TotalCycles(CompensatedWraps(Zero, WrapOccurred(FALSE, 1, 1)), 100, 1),
                    m, sh)
        t2 == Scale(TotalCycles(CompensatedWraps(Zero, WrapOccurred(TRUE, 100, 100)), 100, 100),
                    m, sh)
    IN  t1 = FromInt(99) /\ t2 = FromInt(101)

C3_PendingWrapCompensation ==
    /\ C3_Vectors
    /\ pc = "ret" =>
         LET w_pre == WrapCount(in1, out1)
             wf == IF is_pending \/ val_after > val_before
                   THEN Add(w_pre, One) ELSE w_pre
         IN  /\ w_pre = WrapCount(in2, out2)
             /\ w_pre = WrapCount(in3, out3)
             /\ total_cycles = CyclesAt(wf, val_after)
             /\ current_time = FloorShift(CyclesAt(wf, val_after), multiplier, shift)

\* C3 witness: a call returned that read PENDST clear and saw VAL jump up
\* between its two reads (the reload fell between them).
C3_Witness ==
    /\ pc = "ret"
    /\ ~is_pending
    /\ val_after > val_before
    /\ total_cycles = CyclesAt(Add(WrapCount(in1, out1), One), val_after)

\* C4: while one hardware wrap awaits service, every now() call reports it:
\* each returns Scaler((W + 1) * (R + 1) + (R - VAL)) and leaves PENDST set,
\* and with f_out >= f_src a call at a lower VAL than the call before it in
\* the same window returns a strictly greater value.
C4_StarvationWindow ==
    [][(StressNow /\ pendst_is_pending /\ unserviced = 1) =>
         /\ pendst_is_pending'
         /\ current_time' =
              FloorShift(CyclesAt(Add(WrapCount(inner_wraps, outer_wraps), One),
                                  current_systick),
                         multiplier, shift)
         /\ ( /\ pc = "ret" /\ is_pending
              /\ WrapCount(in1, out1) = WrapCount(inner_wraps, outer_wraps)
              /\ current_systick < val_after
              /\ Leq(systick_freq, tick_hz) )
            => Less(current_time, current_time')
      ]_vars

\* C4 witness: the second of two calls in one starvation window has returned
\* (the call before it already used the compensation and returned less).
C4_Witness ==
    /\ pc = "ret"
    /\ is_pending /\ pendst_is_pending
    /\ unserviced = 1
    /\ val_after < reload_value - 1
    /\ current_time =
         FloorShift(CyclesAt(Add(WrapCount(in1, out1), One), val_after), multiplier, shift)
    /\ Less(Zero, last_seen_time)
    /\ Leq(FloorShift(CyclesAt(Add(WrapCount(in1, out1), One), reload_value),
                      multiplier, shift),
           last_seen_time)
    /\ Less(last_seen_time, current_time)

\* C5: the handler finally running moves the clock neither forward nor
\* backward: now() in a state (W, PENDST set, v) returns what now() returns
\* in the state (W + 1, PENDST clear, v) that clearing PENDST and running
\* systick_handler once leads to; so a reading taken in the starved window
\* is what now() returns right after the service, at the same VAL.
C5_CompensatedEqualsServiced ==
    /\ pendst_is_pending =>
         NowValue = NowValueAt(HandlerInner(inner_wraps),
                               HandlerOuter(inner_wraps, outer_wraps),
                               current_systick, FALSE)
    /\ ( /\ pc = "ret" /\ is_pending /\ ~pendst_is_pending
         /\ val_after = current_systick
         /\ WrapCount(inner_wraps, outer_wraps) = Add(WrapCount(in1, out1), One) )
       => current_time = NowValue

\* C5 witness: the handler has just carried from inner_wraps into outer_wraps
\* after a starved window, and the reading taken in the window is what now()
\* returns now.
C5_Witness ==
    /\ pc = "ret"
    /\ is_pending /\ ~pendst_is_pending
    /\ val_after = current_systick
    /\ inner_wraps = Zero /\ outer_wraps = One
    /\ in1 = U32Max
    /\ current_time = NowValue

\* C6: now() adds at most one wrap: with k >= 1 reloads since the last
\* handler run it computes with W_pre + 1 wraps, whatever k is; a result
\* below its predecessor occurs only after the hardware reloaded while a
\* reload was still unserviced.
C6_BoundedCompensation ==
    /\ [][(StressNow /\ unserviced >= 1) =>
            total_cycles' =
              CyclesAt(Add(WrapCount(inner_wraps, outer_wraps), One), current_systick)
         ]_vars
    /\ [](Less(current_time, last_seen_time) => Overrun)

\* C6 witness: two reloads are unserviced and the reading taken after the
\* second is below the reading taken before it.
C6_Witness ==
    /\ pc = "ret"
    /\ unserviced >= 2
    /\ total_cycles = CyclesAt(Add(WrapCount(in1, out1), One), val_after)
    /\ Less(current_time, last_seen_time)

\* f_src divides f_out * 2^shift: the multiplier loses nothing to rounding
ExactRatio == DivMod(ShiftL(tick_hz, shift), systick_freq).r = Zero

\* What the returning call's cycle count scales to on unbounded naturals
ExactTicks == FloorRatio(total_cycles, tick_hz, systick_freq)

\* C7 (as stated): the value now() derives from a cycle count C is exactly
\* floor(C * f_out / f_src) (here: whenever that fits in 64 bits).
C7_ExactScaling ==
    (pc = "ret" /\ Leq(ExactTicks, U64Max)) => current_time = ExactTicks

\* C7 (amended): for every accepted configuration with f_out * 2^s < 2^64 and
\* every cycle count C, now() derives floor(C * M / 2^s) reduced to 64 bits,
\* with M = floor(f_out * 2^s / f_src), on both paths; this never exceeds
\* floor(C * f_out / f_src) and equals it when f_src divides f_out * 2^s and
\* it fits in 64 bits.
C7_ScalingByMultiplier ==
    pc = "ret" =>
        LET ratio == DivMod(ShiftL(tick_hz, shift), systick_freq)
            exact == ExactTicks
        IN  /\ multiplier = ratio.q
            /\ current_time = FloorShift(total_cycles, ratio.q, shift)
            /\ Leq(current_time, exact)
            /\ (ratio.r = Zero /\ Leq(exact, U64Max)) => current_time = exact

\* C7 witness: a reading on the 128-bit path that is below floor(C * f_out / f_src).
C7_Witness ==
    /\ pc = "ret"
    /\ ~ExactRatio
    /\ Less(U64Max, Mul(total_cycles, multiplier))
    /\ Less(current_time, ExactTicks)

\* C8 (as stated): for two readings at cycle counts C0 <= C1,
\* t_end - t_start = floor((C1 - C0) * f_out / f_src) exactly (here: for two
\* readings the observer took, at the ratios the multiplier represents
\* exactly).
C8_LinearIntervals ==
    ( /\ pc = "ret"
      /\ Less(Zero, prev_cycles)
      /\ Leq(prev_cycles, ReadCycles)
      /\ Leq(ReadCycles, U64Max)
      /\ ExactRatio
      /\ Leq(FloorRatio(ReadCycles, tick_hz, systick_freq), U64Max) )
    => current_time =
         Add(last_seen_time,
             FloorRatio(Sub(ReadCycles, prev_cycles), tick_hz, systick_freq))

\* C8 (amended): for two readings at cycle counts C0 <= C1 < 2^32 (C0 = 0
\* being the timer's start, reading 0), t_end - t_start differs from
\* floor((C1 - C0) * f_out / f_src) by at most 1; when f_src divides f_out it
\* equals it exactly, for all cycle counts below 2^64 whose readings fit in
\* 64 bits.
C8_IntervalsWithinOne ==
    ( /\ pc = "ret"
      /\ Leq(prev_cycles, ReadCycles)
      /\ Leq(ReadCycles, U64Max)
      /\ Leq(FloorRatio(ReadCycles, tick_hz, systick_freq), U64Max) )
    => LET span == FloorRatio(Sub(ReadCycles, prev_cycles), tick_hz, systick_freq)
       IN  /\ Less(ReadCycles, Pow2(32)) =>
                /\ Leq(Add(last_seen_time, span), Add(current_time, One))
                /\ Leq(current_time, Add(Add(last_seen_time, span), One))
           /\ DivMod(tick_hz, systick_freq).r = Zero =>
                current_time = Add(last_seen_time, span)

\* C8 witness: two readings one cycle apart at f_src = 2 * f_out that differ by
\* one tick, where floor(1 * f_out / f_src) is 0.
C8_Witness ==
    /\ pc = "ret"
    /\ systick_freq = Add(tick_hz, tick_hz)
    /\ Less(Zero, prev_cycles)
    /\ ReadCycles = Add(prev_cycles, One)
    /\ current_time = Add(last_seen_time, One)

\* C9 (as stated): whenever f_src divides f_out * 2^s, now() equals
\* floor((W * (R + 1) + (R - VAL)) * f_out / f_src) for every W and VAL whose
\* result fits in 64 bits.
C9_ExactForExactRatios ==
    ( /\ pc = "ret"
      /\ ExactRatio
      /\ Leq(FloorRatio(ReadCycles, tick_hz, systick_freq), U64Max) )
    => current_time = FloorRatio(ReadCycles, tick_hz, systick_freq)

\* The unit tests' table for R = 5 and a fresh timer: VAL 5..0 reads 0..5 at
\* 1:1, 0,2,..,10 at 2:1 and 0,0,1,1,2,2 at 1:2; one interrupt later VAL = 5
\* reads 6 at 1:1.
C9_Table ==
    (pc = "ret" /\ reload_value = 5 /\ systick_freq \in {FromInt(1000), FromInt(2000)}) =>
        /\ (ReadWraps = Zero /\ tick_hz = systick_freq) =>
             current_time = FromInt(5 - val_after)
        /\ (ReadWraps = Zero /\ tick_hz = FromInt(2000)) =>
             current_time = FromInt(2 * (5 - val_after))
        /\ (ReadWraps = Zero /\ systick_freq = FromInt(2000)) =>
             current_time = FromInt((5 - val_after) \div 2)
        /\ (ReadWraps = One /\ tick_hz = systick_freq /\ val_after = 5) =>
             current_time = FromInt(6)

\* C9 (amended): whenever f_src divides f_out * 2^s, now() equals
\* floor((W * (R + 1) + (R - VAL)) * f_out / f_src) for every W and VAL whose
\* cycle count W * (R + 1) + (R - VAL) and whose result fit in 64 bits; the
\* R = 5 table holds.
C9_ExactWithinSixtyFourBits ==
    /\ C9_Table
    /\ ( /\ pc = "ret"
         /\ ExactRatio
         /\ Leq(ReadCycles, U64Max)
         /\ Leq(FloorRatio(ReadCycles, tick_hz, systick_freq), U64Max) )
       => current_time = FloorRatio(ReadCycles, tick_hz, systick_freq)

\* C9 witness: the reading 6 after one interrupt at 1:1 with R = 5.
C9_Witness ==
    /\ pc = "ret"
    /\ reload_value = 5
    /\ tick_hz = systick_freq
    /\ reloads = 1
    /\ ReadWraps = One
    /\ val_after = 5
    /\ current_time = FromInt(6)

\* C10: whenever C * M < 2^64, (C * M) >> s equals the low 64 bits of the
\* 128-bit product shifted by s, and what now() returns is the 128-bit
\* computation's value whichever branch it took.
C10_FastEqualsWide ==
    pc = "ret" =>
        LET product == Mul(total_cycles, multiplier)
            wide == Low(ShiftR(product, shift), 64)
        IN  /\ current_time = wide
            /\ Leq(product, U64Max) => ShiftR(Low(product, 64), shift) = wide

\* C10 witness: a non-zero reading on the 64-bit path whose product is
\* within two bits of overflowing.
C10_Witness ==
    /\ pc = "ret"
    /\ Leq(Mul(total_cycles, multiplier), U64Max)
    /\ Leq(Pow2(62), Mul(total_cycles, multiplier))
    /\ Less(Zero, current_time)

\* The configuration of test_u64_overflow_scenario
OverflowScenario ==
    /\ tick_hz = FromInt(10000000)
    /\ reload_value = Pow2Int(24) - 1
    /\ systick_freq = FromInt(100000000)

\* C11 (as stated): with f_out = 10_000_000, R = 2^24 - 1, f_src = 100_000_000,
\* wrap count 2560 and VAL = R, the product C * M overflows 64 bits and now()
\* returns 4_296_645_011.
C11_VectorAtReload ==
    ( /\ pc = "ret" /\ OverflowScenario
      /\ ReadWraps = FromInt(2560) /\ ~is_pending /\ val_after = reload_value )
    => /\ Less(U64Max, Mul(total_cycles, multiplier))
       /\ current_time = Add(Mul(FromInt(4296645), FromInt(1000)), FromInt(11))

\* C11 (amended): in that configuration with wrap count 2560, it is at
\* VAL = 0 (where Timer::new leaves the test double) that the product C * M
\* overflows 64 bits and now() returns 4_296_645_011; at VAL = R the product
\* fits in 64 bits and now() returns 4_294_967_290.
C11_VectorAtZero ==
    (pc = "ret" /\ OverflowScenario /\ ReadWraps = FromInt(2560) /\ ~is_pending) =>
        /\ val_after = 0 =>
             /\ Less(U64Max, Mul(total_cycles, multiplier))
             /\ current_time = Add(Mul(FromInt(4296645), FromInt(1000)), FromInt(11))
        /\ val_after = reload_value =>
             /\ Leq(Mul(total_cycles, multiplier), U64Max)
             /\ current_time = Add(Mul(FromInt(4294967), FromInt(1000)), FromInt(290))

\* C11 witness: the test's reading, taken with no interrupt since the stores.
C11_Witness ==
    /\ pc = "ret" /\ OverflowScenario
    /\ reloads = 0
    /\ ReadWraps = FromInt(2560)
    /\ val_after = 0
    /\ Less(U64Max, Mul(total_cycles, multiplier))
    /\ current_time = Add(Mul(FromInt(4296645), FromInt(1000)), FromInt(11))

\* C12: new() returns an instance whose two wrap counters are 0, and with
\* VAL = R, PENDST clear and no handler invocation now() returns 0, for every
\* accepted (f_out, R, f_src).
C12_ZeroAtStart ==
    /\ pc = "in1" => (inner_wraps = Zero /\ outer_wraps = Zero /\ ~pendst_is_pending)
    /\ (pc = "ret" /\ val_after = reload_value /\ ~is_pending) =>
          (ReadWraps = Zero /\ total_cycles = Zero /\ current_time = Zero)

\* C12 witness: the instance of test_timer_initial_state read at VAL = R.
C12_Witness ==
    /\ pc = "ret"
    /\ tick_hz = FromInt(1000) /\ reload_value = 5 /\ systick_freq = FromInt(12000)
    /\ val_after = reload_value
    /\ ~is_pending
    /\ current_time = Zero

\* The handler invocations so far: every reload is awaiting service, was
\* serviced by an invocation of its own, or was missed
Invocations == reloads - unserviced - missed

\* C13: after exactly N non-overlapping systick_handler invocations, in any
\* interleaving with the loads of now() and with hardware ticks, the composite
\* (W_hi << 32) | W_lo is the count the timer started with plus N, modulo
\* 2^64: N itself for a fresh instance.
C13_WrapComposition ==
    \E w0 \in StartWraps :
        /\ WrapCount(inner_wraps, outer_wraps) = Low(Add(w0, FromInt(Invocations)), 64)
        /\ w0 = Zero <=> Less(WrapCount(inner_wraps, outer_wraps), Pow2(31))

\* C13 witness: a fresh instance after two invocations, the second of which
\* ran between two loads of a now() call.
C13_Witness ==
    /\ Invocations = 2
    /\ WrapCount(inner_wraps, outer_wraps) = FromInt(2)
    /\ pc = "out2"
    /\ in1 = One
    /\ in2 = FromInt(2)

\* C14: a systick_handler invocation changes W_hi if and only if the W_lo it
\* loaded was 2^32 - 1; then W_lo becomes 0 and W_hi increases by exactly 1
\* modulo 2^32; in every other invocation W_hi is unchanged and W_lo increases
\* by exactly 1.
C14_CarryRule ==
    [][ reloads' = reloads + 1 =>
          /\ outer_wraps' # outer_wraps <=> inner_wraps = U32Max
          /\ inner_wraps = U32Max =>
                /\ inner_wraps' = Zero
                /\ outer_wraps' = Low(Add(outer_wraps, One), 32)
          /\ inner_wraps # U32Max =>
                /\ outer_wraps' = outer_wraps
                /\ inner_wraps' = Add(inner_wraps, One) ]_vars

\* C14 witness: the invocation that loaded W_lo = 2^32 - 1 with W_hi = 0 has
\* run, and now() has read the carried count.
C14_Witness ==
    /\ reloads = 1
    /\ inner_wraps = Zero
    /\ outer_wraps = One
    /\ pc = "ret"
    /\ ReadWraps = Pow2(32)

\* A reading at wrap count 0 that follows, with exactly one handler invocation
\* in between, a reading taken at wrap count 2^64 - 1
ReadAcrossOverflow ==
    /\ pc = "ret"
    /\ reloads = 1
    /\ ReadWraps = Zero
    /\ Leq(Mul(U64Max, FromInt(reload_value + 1)), prev_cycles)

\* C15 (as stated): from W_lo = W_hi = 2^32 - 1 one systick_handler invocation
\* leaves W_lo = W_hi = 0, and the next now() is >= the now() reading taken
\* just before that invocation.
C15_MonotonicAcrossOverflow ==
    /\ (reloads = 1 /\ Leq(Mul(U64Max, FromInt(reload_value + 1)), prev_cycles)) =>
          (inner_wraps = Zero /\ outer_wraps = Zero)
    /\ ReadAcrossOverflow => Leq(last_seen_time, current_time)

\* C15 (amended): from W_lo = W_hi = 2^32 - 1 one systick_handler invocation
\* leaves W_lo = W_hi = 0, and the next now() restarts from wrap count 0: it
\* returns the scaled R - VAL (0 at VAL = R), which is below the reading taken
\* just before that invocation.
C15_RestartsAcrossOverflow ==
    /\ [][ (reloads' = reloads + 1 /\ inner_wraps = U32Max /\ outer_wraps = U32Max) =>
             (inner_wraps' = Zero /\ outer_wraps' = Zero) ]_vars
    /\ [](ReadAcrossOverflow =>
            /\ inner_wraps = Zero /\ outer_wraps = Zero
            /\ total_cycles = FromInt(reload_value - val_after)
            /\ current_time =
                 FloorShift(FromInt(reload_value - val_after), multiplier, shift)
            /\ Less(current_time, last_seen_time))

\* C15 witness: test_outer_wraps_wrapping at 1:1 with R = 5: the reading
\* before the invocation is 2^64 - 1, the reading after it at VAL = 5 is 0.
C15_Witness ==
    /\ ReadAcrossOverflow
    /\ tick_hz = systick_freq /\ reload_value = 5
    /\ val_after = 5
    /\ last_seen_time = U64Max
    /\ current_time = Zero

\* The 64-bit wrap count W the returning call computed with, and the cycle
\* count W * (R + 1) + (R - v) on unbounded naturals
UsedWraps == Low(Add(ReadWraps, IF is_pending THEN One ELSE Zero), 64)
UsedCycles == CyclesAt(UsedWraps, val_after)

\* The returning call follows an earlier call that read no more cycles
AfterEarlierReading == Less(Zero, prev_cycles) /\ Leq(prev_cycles, ReadCycles)

\* C16 (as stated): the cycle count is C = min(2^64 - 1, W*(R+1) + (R - v));
\* once C has saturated, now() returns one constant value, which is >= every
\* earlier reading.
C16_SaturatesAndStalls ==
    pc = "ret" =>
        /\ total_cycles = IF Less(U64Max, UsedCycles) THEN U64Max ELSE UsedCycles
        /\ Leq(U64Max, UsedCycles) =>
              /\ current_time = FloorShift(U64Max, multiplier, shift)
              /\ AfterEarlierReading => Leq(last_seen_time, current_time)

\* C16 (amended): the cycle count is C = min(2^64 - 1, W*(R+1) + (R - v));
\* once C has saturated, now() returns the constant
\* floor((2^64 - 1) * M / 2^s) mod 2^64, and when f_out <= f_src (M <= 2^s)
\* that constant is >= every earlier reading.
C16_SaturatesAndStallsAtUnitRate ==
    pc = "ret" =>
        /\ total_cycles = IF Less(U64Max, UsedCycles) THEN U64Max ELSE UsedCycles
        /\ Leq(U64Max, UsedCycles) =>
              /\ current_time = FloorShift(U64Max, multiplier, shift)
              /\ (AfterEarlierReading /\ Leq(multiplier, Pow2(shift))) =>
                    Leq(last_seen_time, current_time)

\* C16 witness: two saturated readings with a handler invocation between
\* them: more cycles, the same value.
C16_Witness ==
    /\ pc = "ret"
    /\ reloads = 1
    /\ Less(U64Max, prev_cycles)
    /\ Less(prev_cycles, ReadCycles)
    /\ Less(U64Max, UsedCycles)
    /\ total_cycles = U64Max
    /\ current_time = last_seen_time
    /\ Less(Zero, current_time)

\* C17: now() never fails: in every state with VAL in [0, R] it returns,
\* including when W_pre = 2^64 - 1 and a wrap is observed, when C saturates
\* and when C * M does not fit in 64 bits.
C17_NowNeverFails == pc # "panic"

\* The arguments new() documents as invalid
InvalidArguments ==
    \/ reload_value = 0
    \/ reload_value > Pow2Int(24) - 1
    \/ systick_freq = Zero

\* Some s in [32, 63] gives (f_out << s) / f_src >= 1, `<<` being the 64-bit
\* shift of the construction rule
ShiftFound ==
    \E s \in 32..63 : Less(Zero, Div(Low(ShiftL(tick_hz, s), 64), systick_freq))

\* C18: new(f_out, R, f_src) never yields an instance when R = 0, when
\* R > 2^24 - 1 or when f_src = 0; for every R in [1, 2^24 - 1] with f_src > 0
\* and a ratio for which a shift is found it does not fail.
C18_RejectsInvalid ==
    /\ (pc # "new" /\ InvalidArguments) => pc = "panic"
    /\ pc = "panic" => (InvalidArguments \/ ~ShiftFound)

\* C18 witness: an instance returned for the largest reload value, and read.
C18_Witness ==
    /\ pc = "ret"
    /\ reload_value = Pow2Int(24) - 1
    /\ tick_hz = FromInt(1000) /\ systick_freq = FromInt(12000)
    /\ shift = 32
    /\ Less(Zero, multiplier)

\* C19: new() never returns an instance whose multiplier is 0 or whose shift
\* lies outside [32, 63]; when no s <= 63 gives (f_out << s) / f_src >= 1,
\* construction fails.
C19_NoDegenerateScaler ==
    /\ pc \in {"in1", "ret"} => (multiplier # Zero /\ shift \in 32..63)
    /\ (pc # "new" /\ ~InvalidArguments /\ ~ShiftFound) => pc = "panic"

\* C20: for every returned instance (with s in [32, 63]), s is the least
\* integer in [32, 63] with floor(f_out * 2^s / f_src) > 0 and
\* M = floor(f_out * 2^s / f_src), f_out * 2^s being the product on unbounded
\* naturals, which fits in 64 bits as M does; (1000, 12_000) gives s = 32 and
\* (3, 16_000_000_000) gives s = 33.
C20_ScalerConstants ==
    (pc \in {"in1", "ret"} /\ shift \in 32..63) =>
        /\ Leq(ShiftL(tick_hz, shift), U64Max)
        /\ multiplier = Div(ShiftL(tick_hz, shift), systick_freq)
        /\ Less(Zero, multiplier) /\ Leq(multiplier, U64Max)
        /\ \A s \in 32..(shift - 1) : Div(ShiftL(tick_hz, s), systick_freq) = Zero
        /\ (tick_hz = FromInt(1000) /\ systick_freq = FromInt(12000)) => shift = 32
        /\ (tick_hz = FromInt(3)
              /\ systick_freq = Mul(FromInt(16), FromInt(1000000000))) => shift = 33


-----------------------------------------------------------------------------
\* The handler step by step, under an observer that outranks it
\* (configure_interrupts: SysTick at priority 2, the timer interrupts at 0)

\* Wrap counts at which the exploration starts: a fresh timer and one whose
\* next interrupt carries from inner_wraps into outer_wraps
IsrStartWraps == {Zero, U32Max}

IsrInit ==
    /\ \E r \in RateSet, w0 \in IsrStartWraps :
         Construct(FromInt(r[1]), SmallReload, FromInt(r[2]), w0, SmallReload)
    /\ ObserverInit
    /\ reloads = 0
    /\ unserviced = 0
    /\ missed = 0

\* Hardware: the reload at VAL = 0, which sets COUNTFLAG and PENDST; no reload
\* while a wrap awaits service or is being serviced
HwWrap ==
    /\ current_systick = 0
    /\ reloads < MaxReloads
    /\ ~pendst_is_pending
    /\ isr[1].pc = "idle"
    /\ current_systick' = reload_value
    /\ systick_has_wrapped' = TRUE
    /\ pendst_is_pending' = TRUE
    /\ reloads' = reloads + 1
    /\ unserviced' = unserviced + 1
    /\ UNCHANGED <<timer, config, sampled, service, locals, observer, missed>>

\* Exception entry: the pending SysTick becomes active, which clears PENDST
HandlerEnter(i) ==
    /\ pendst_is_pending
    /\ isr[i].pc = "idle"
    /\ pendst_is_pending' = FALSE
    /\ isr' = [isr EXCEPT ![i].pc = "countflag"]
    /\ UNCHANGED <<timer, current_systick, systick_has_wrapped, config, sampled, diagnosis, locals,
                   observer, history>>

\* systick_handler: self.read_systick_countflag()
HandlerReadCountflag(i) ==
    /\ isr[i].pc = "countflag"
    /\ systick_has_wrapped' = CountflagRead(systick_has_wrapped)[2]
    /\ isr' = [isr EXCEPT ![i].flag = CountflagRead(systick_has_wrapped)[1],
                          ![i].pc = "load_inner"]
    /\ UNCHANGED <<timer, current_systick, pendst_is_pending, config, sampled, diagnosis, locals,
                   observer, history>>

\* systick_handler: let inner = self.inner_wraps.load(Relaxed)
HandlerLoadInner(i) ==
    /\ isr[i].pc = "load_inner"
    /\ isr' = [isr EXCEPT ![i].inner = inner_wraps, ![i].pc = "store_inner"]
    /\ UNCHANGED <<timer, hardware, config, sampled, diagnosis, locals, observer, history>>

\* systick_handler: self.inner_wraps.store(inner.wrapping_add(1), SeqCst) and
\* the test inner == u32::MAX; an invocation that is over is in position final
HandlerStoreInner(i, final) ==
    /\ isr[i].pc = "store_inner"
    /\ inner_wraps' = HandlerInner(isr[i].inner)
    /\ isr' = [isr EXCEPT ![i].pc = IF isr[i].inner = U32Max THEN "load_outer" ELSE final]
    /\ unserviced' = 0
    /\ UNCHANGED <<outer_wraps, reload_value, multiplier, shift, hardware, config, sampled, diagnosis,
                   locals, observer, reloads, missed>>

\* systick_handler: let outer = self.outer_wraps.load(Relaxed).wrapping_add(1)
HandlerLoadOuter(i) ==
    /\ isr[i].pc = "load_outer"
    /\ isr' = [isr EXCEPT ![i].outer = HandlerOuter(isr[i].inner, outer_wraps),
                          ![i].pc = "store_outer"]
    /\ UNCHANGED <<timer, hardware, config, sampled, diagnosis, locals, observer, history>>

\* systick_handler: self.outer_wraps.store(outer, SeqCst)
HandlerStoreOuter(i, final) ==
    /\ isr[i].pc = "store_outer"
    /\ outer_wraps' = isr[i].outer
    /\ isr' = [isr EXCEPT ![i].pc = final]
    /\ UNCHANGED <<inner_wraps, reload_value, multiplier, shift, hardware, config, sampled, diagnosis,
                   locals, observer, history>>

\* A handler that stores the carry to outer_wraps before the new inner_wraps
IsrLoadInnerCarryFirst ==
    /\ isr[1].pc = "load_inner"
    /\ isr' = [isr EXCEPT ![1].inner = inner_wraps, ![1].pc = "store_inner"]
    /\ outer_wraps' = HandlerOuter(inner_wraps, outer_wraps)
    /\ UNCHANGED <<inner_wraps, reload_value, multiplier, shift, hardware, config, sampled, diagnosis,
                   locals, observer, history>>

\* The SysTick exception, one step of it
IsrEnter == HandlerEnter(1)
IsrReadCountflag == HandlerReadCountflag(1)
IsrLoadInner == HandlerLoadInner(1)
IsrStoreInner == HandlerStoreInner(1, "idle")
IsrLoadOuter == HandlerLoadOuter(1)
IsrStoreOuter == HandlerStoreOuter(1, "idle")

IsrStep ==
    \/ IsrEnter \/ IsrReadCountflag \/ IsrLoadInner
    \/ IsrStoreInner \/ IsrLoadOuter \/ IsrStoreOuter

\* A timer interrupt of higher priority: check_timer_monotonic runs now() to
\* completion wherever the SysTick exception stands
IsrNow == StressNow

IsrNext == HwCountDown \/ HwWrap \/ IsrStep \/ IsrNow

SpecIsr == IsrInit /\ [][IsrNext]_vars

\* The handler stores to inner_wraps that have happened
InnerStores ==
    reloads - unserviced

C22_MonotonicAboveHandler == Leq(last_seen_time, current_time)

\* C30: the new inner_wraps is stored before the new outer_wraps: in every
\* state inner_wraps counts every handler store, and between the two stores of
\* a carry inner_wraps is already 0 while outer_wraps still has its old value
C30_CarryStoreOrder ==
    \E w0 \in IsrStartWraps :
        LET w == Add(w0, FromInt(InnerStores))
            between == isr[1].pc \in {"load_outer", "store_outer"}
        IN  /\ inner_wraps = Low(w, 32)
            /\ between => inner_wraps = Zero /\ outer_wraps = ShiftR(Sub(w, One), 32)
            /\ ~between => outer_wraps = ShiftR(w, 32)

\* The handler stands between the two stores of a carry
C30_BetweenStores ==
    isr[1].pc = "store_outer" /\ inner_wraps = Zero /\ outer_wraps = Zero /\ isr[1].outer = One

-----------------------------------------------------------------------------
\* Two invocations of the handler, called with and without a critical section

NestedStartWraps == StartWraps \cup IsrStartWraps

NestedInit ==
    /\ \E r \in RateSet, w0 \in NestedStartWraps :
         Construct(FromInt(r[1]), SmallReload, FromInt(r[2]), w0, SmallReload)
    /\ ObserverInit
    /\ reloads = 0
    /\ unserviced = 0
    /\ missed = 0

\* A caller enters systick_handler, whatever another invocation is doing
NestedCall(i) ==
    /\ isr[i].pc = "idle"
    /\ isr' = [isr EXCEPT ![i].pc = "countflag"]
    /\ UNCHANGED <<timer, hardware, config, sampled, diagnosis, locals, observer, history>>

\* systick_interrupt_for_nested: the handler inside interrupt::free, entered
\* while no other invocation is in progress and not interrupted
NestedFree(i) ==
    /\ isr[i].pc = "idle"
    /\ \A j \in Invocation : isr[j].pc \in {"idle", "done"}
    /\ SystickHandler
    /\ isr' = [isr EXCEPT ![i].flag = CountflagRead(systick_has_wrapped)[1],
                          ![i].inner = inner_wraps, ![i].pc = "done"]
    /\ UNCHANGED <<current_systick, pendst_is_pending, config, sampled, diagnosis, locals, observer,
                   history>>

NestedStep(i) ==
    \/ HandlerReadCountflag(i) \/ HandlerLoadInner(i) \/ HandlerStoreInner(i, "done")
    \/ HandlerLoadOuter(i) \/ HandlerStoreOuter(i, "done")

NestedNext == \E i \in Invocation : NestedCall(i) \/ NestedFree(i) \/ NestedStep(i)

SpecNested == NestedInit /\ [][NestedNext]_vars

\* Both invocations are over
NestedDone == \A i \in Invocation : isr[i].pc = "done"

\* Both invocations loaded inner_wraps before either stored it
NestedOverlap == NestedDone /\ isr[1].inner = isr[2].inner

\* The wrap count is w0 + n after the two invocations, w0 the start count
\* whose low half the first load returned
NestedAdvance(n) ==
    \E w0 \in NestedStartWraps :
        /\ Low(w0, 32) \in {isr[1].inner, isr[2].inner}
        /\ Low(Add(w0, One), 32) \in {isr[1].inner, isr[2].inner} \/ NestedOverlap
        /\ WrapCount(inner_wraps, outer_wraps) = Add(w0, FromInt(n))

\* C29: two overlapping invocations store the same value and advance the wrap
\* count by only one; mutually exclusive invocations advance it by one each
C29_OverlapAdvancesOne ==
    NestedDone => IF NestedOverlap THEN NestedAdvance(1) ELSE NestedAdvance(2)

\* C29 (amended): two overlapping invocations store the same inner_wraps and
\* advance it by only one; when the value they loaded is 2^32 - 1 each of them
\* also increments outer_wraps, which advances by one or by two; mutually
\* exclusive invocations advance the wrap count by one each
C29_OverlapLosesInnerCount ==
    NestedDone =>
        IF NestedOverlap
        THEN /\ inner_wraps = WrappingInc32(isr[1].inner)
             /\ \E w0 \in NestedStartWraps :
                    /\ Low(w0, 32) = isr[1].inner
                    /\ IF isr[1].inner = U32Max
                       THEN outer_wraps \in {Add(ShiftR(w0, 32), One),
                                             Add(ShiftR(w0, 32), FromInt(2))}
                       ELSE outer_wraps = ShiftR(w0, 32)
        ELSE NestedAdvance(2)

\* Two overlapping invocations have both carried into outer_wraps
C29_Witness == NestedOverlap /\ isr[1].inner = U32Max /\ outer_wraps = FromInt(2)

-----------------------------------------------------------------------------
\* diagnose_timing_violation over bounded readings

\* u64::saturating_sub
SaturatingSub64(a, b) == IF Less(a, b) THEN Zero ELSE Sub(a, b)

NanosPerSecond == Mul(FromInt(1000000), FromInt(1000))

\* diagnose_timing_violation: wrap_period_ns
WrapPeriodNs(reload, freq) == Div(Mul(FromInt(reload + 1), NanosPerSecond), freq)

\* A tolerance of 1% of the expected jump
ToleranceOfExpected(period, observed_periods) ==
    Div(Mul(FromInt(observed_periods), period), FromInt(100))

\* diagnose_timing_violation: tolerance, the same in every iteration
Tolerance(period, observed_periods) == Div(period, FromInt(100))

\* diagnose_timing_violation: the test of one loop iteration
JumpMatches(backwards_jump, period, observed_periods) ==
    LET expected_jump == Mul(FromInt(observed_periods), period)
        tolerance == Tolerance(period, observed_periods)
    IN  /\ Leq(SaturatingSub64(expected_jump, tolerance), backwards_jump)
        /\ Leq(backwards_jump, Add(expected_jump, tolerance))

\* diagnose_timing_violation fails: the division by systick_freq = 0
DiagnosePanics(current, previous, freq) ==
    Less(current, previous) /\ freq = Zero

\* diagnose_timing_violation: 0 for None, n for Some(n)
DiagnoseTimingViolation(reload, current, previous, freq) ==
    IF Leq(previous, current)
    THEN 0
    ELSE LET backwards_jump == Sub(previous, current)
             period == WrapPeriodNs(reload, freq)
         IN  IF JumpMatches(backwards_jump, period, 1) THEN 2
             ELSE IF JumpMatches(backwards_jump, period, 2) THEN 3
             ELSE IF JumpMatches(backwards_jump, period, 3) THEN 4
             ELSE 0

\* Output and source rates of the diagnosed timers: nanosecond ticks with a
\* period of hundreds of ticks, millisecond ticks, and a period of a few ticks
DiagConfigs ==
    {<<NanosPerSecond, FromInt(10000000)>>, <<FromInt(1000), FromInt(1000)>>,
     <<NanosPerSecond, NanosPerSecond>>}

\* The largest difference of two readings tried, beside whole wrap periods
MaxJump == 1300

DiagNows == {Zero, FromInt(7)}

\* The difference of two readings taken k wrap periods apart
PeriodJump(k) == Scale(FromInt(k * (reload_value + 1)), multiplier, shift)

DiagJumps == {FromInt(j) : j \in 0..MaxJump} \cup {PeriodJump(k) : k \in 1..3}

\* A timer, the source rate its caller passes, and two readings in either order
DiagInit ==
    /\ \E r \in DiagConfigs :
         /\ NewAccepts(r[1], SmallReload, r[2])
         /\ multiplier = ComputeMultiplier(r[1], r[2])
         /\ shift = ComputeShift(r[1], r[2])
         /\ tick_hz = r[1]
         /\ systick_freq \in {r[2], Zero}
    /\ inner_wraps = Zero /\ outer_wraps = Zero
    /\ reload_value = SmallReload
    /\ current_systick = SmallReload
    /\ systick_has_wrapped = FALSE
    /\ pendst_is_pending = FALSE
    /\ pc = "in1"
    /\ in1 = Zero /\ out1 = Zero /\ val_before = 0
    /\ in2 = Zero /\ out2 = Zero
    /\ is_pending = FALSE /\ val_after = 0
    /\ in3 = Zero /\ out3 = Zero
    /\ total_cycles = Zero /\ prev_cycles = Zero
    /\ ServiceInit
    /\ reloads = 0 /\ unserviced = 0 /\ missed = 0
    /\ \E n \in DiagNows, j \in DiagJumps :
         \/ current_time = n /\ last_seen_time = Add(n, j)
         \/ current_time = Add(n, j) /\ last_seen_time = n

\* check_timer_monotonic: diagnose_timing_violation(now, *last_now, core_frequency)
Diagnose ==
    /\ pc = "in1"
    /\ ~DiagnosePanics(current_time, last_seen_time, systick_freq)
    /\ diagnosis' =
         DiagnoseTimingViolation(reload_value, current_time, last_seen_time, systick_freq)
    /\ pc' = "ret"
    /\ UNCHANGED <<timer, hardware, config, sampled, isr, in1, out1, val_before, in2, out2, is_pending,
                   val_after, in3, out3, readings, history>>

DiagnosePanic ==
    /\ pc = "in1"
    /\ DiagnosePanics(current_time, last_seen_time, systick_freq)
    /\ pc' = "panic"
    /\ UNCHANGED <<timer, hardware, config, sampled, service, in1, out1, val_before, in2, out2,
                   is_pending, val_after, in3, out3, readings, history>>

DiagNext == Diagnose \/ DiagnosePanic

SpecDiag == DiagInit /\ [][DiagNext]_vars

\* |a - b|
AbsDiff(a, b) == IF Less(a, b) THEN Sub(b, a) ELSE Sub(a, b)

\* The jump between the two readings diagnosed
Jump == Sub(last_seen_time, current_time)

\* The answer for the least k in 1..3 that Near(k) accepts: k + 1, or 0 for None
LeastNear(Near(_)) ==
    IF Near(1) THEN 2 ELSE IF Near(2) THEN 3 ELSE IF Near(3) THEN 4 ELSE 0

\* The call has left the timer and the hardware as DiagInit made them
DiagFrame ==
    /\ inner_wraps = Zero /\ outer_wraps = Zero
    /\ reload_value = SmallReload
    /\ current_systick = SmallReload
    /\ ~systick_has_wrapped /\ ~pendst_is_pending

\* C23: None when t_now >= t_prev; otherwise Some(k + 1) for the k in 1..3
\* with J within 1% of k * P, P = (R + 1) * 10^9 / source_hz, and None for
\* every other J; the result is None, 2, 3 or 4 and no state changes
C23_WithinOnePercent ==
    pc = "ret" =>
        LET span == Mul(FromInt(reload_value + 1), NanosPerSecond)
            Near(k) == Leq(Mul(FromInt(100),
                               AbsDiff(Mul(Jump, systick_freq), Mul(FromInt(k), span))),
                           Mul(FromInt(k), span))
        IN  /\ diagnosis = IF Leq(last_seen_time, current_time) THEN 0 ELSE LeastNear(Near)
            /\ diagnosis \in {0, 2, 3, 4}
            /\ DiagFrame

\* C23 (amended): None when t_now >= t_prev; otherwise Some(k + 1) for the k
\* in 1..3 with |J - k * P| <= floor(P / 100), P = floor((R + 1) * 10^9 /
\* source_hz), and None for every other J; the result is None, 2, 3 or 4 and
\* no state changes
C23_WithinHundredthOfPeriod ==
    pc = "ret" =>
        LET P == Div(Mul(FromInt(reload_value + 1), NanosPerSecond), systick_freq)
            Near(k) == Leq(AbsDiff(Jump, Mul(FromInt(k), P)), Div(P, FromInt(100)))
        IN  /\ diagnosis = IF Leq(last_seen_time, current_time) THEN 0 ELSE LeastNear(Near)
            /\ diagnosis \in {0, 2, 3, 4}
            /\ DiagFrame

\* A jump above two periods, inside the tolerance, has been classified
C23_Witness ==
    /\ pc = "ret" /\ diagnosis = 3
    /\ Less(current_time, last_seen_time)
    /\ Less(Mul(FromInt(2), WrapPeriodNs(reload_value, systick_freq)), Jump)

\* C24: a backwards jump of exactly k wrap periods between two readings of a
\* timer of any output rate is classified Some(k + 1)
C24_WholePeriodsClassified ==
    (pc = "ret" /\ Less(current_time, last_seen_time)) =>
        \A k \in 1..3 : Jump = PeriodJump(k) => diagnosis = k + 1

\* The wrap count Spec started from, and the wrap counts the counters have held
StartCount == Sub(WrapCount(inner_wraps, outer_wraps), FromInt(Invocations))
CountsHeld == {Add(StartCount, FromInt(j)) : j \in 0..Invocations}

\* The handler invocations that had run when inner_wraps held the value lo
InvocationsAt(lo) == CHOOSE j \in 0..Invocations : Low(Add(StartCount, FromInt(j)), 32) = lo

\* The three pairs now() has read in this iteration
Pair1 == <<in1, out1>>
Pair2 == <<in2, out2>>
Pair3 == <<in3, out3>>

\* C26: an iteration restarts exactly when the pair re-read after the first
\* VAL read, or after the PENDST and second VAL read, differs from the pair
\* read first; a restart has a handler invocation of its own after the
\* iteration's first load, so restarts never outnumber the invocations that
\* overlap the call; a call returns only with three equal pairs
C26_RetryRule ==
    [][/\ (pc = "out2" /\ pc' # pc)
            => /\ pc' = IF Pair2' # Pair1 THEN "in1" ELSE "is_pending"
               /\ pc' = "in1" => InvocationsAt(in1) < Invocations
       /\ (pc = "out3" /\ pc' # pc)
            => /\ pc' = IF Pair3' # Pair1 THEN "in1" ELSE "ret"
               /\ pc' = "in1" => InvocationsAt(in1) < Invocations
       /\ (pc' = "in1" /\ pc # "in1") => pc \in {"out2", "out3"}
       /\ (pc' = "ret" /\ pc # "ret") => (Pair1' = Pair2' /\ Pair1' = Pair3')]_vars

\* An iteration has restarted at the second test: the handler ran between the
\* PENDST read and the last re-read of the counters
C26_Witness == pc = "in1" /\ Pair2 = Pair1 /\ in3 # in1 /\ ~is_pending /\ reloads > 0

\* C27: the wrap count a returning now() used is one the counters have held,
\* and inner_wraps and outer_wraps held its halves at each of the three reads
C27_NoTornCount ==
    pc = "ret" =>
        /\ WrapCount(in1, out1) \in CountsHeld
        /\ Pair2 = Pair1 /\ Pair3 = Pair1

\* now() has read inner_wraps = 2^32 - 1 before the carry and outer_wraps = 1
\* after it, and has discarded the pair
C27_TornPairDiscarded == pc = "in1" /\ in1 = U32Max /\ out1 = One /\ in2 = Zero

-----------------------------------------------------------------------------
\* The reader keeps running: fairness for the steps of now()

\* One rate pair, started two interrupts short of the carry
LiveInit ==
    /\ Init
    /\ tick_hz = systick_freq
    /\ inner_wraps = Sub(U32Max, One)

\* The positions of now()
Positions ==
    {"in1", "out1", "val_before", "in2", "out2", "is_pending", "val_after", "in3", "out3", "ret"}

\* A step of now(): each of its loads, and nothing else, moves its position
ReaderRuns == pc' \in Positions /\ pc' # pc

\* The processor keeps executing the caller of now(): steps of it keep
\* happening, between the handler invocations that preempt it
SpecLive == LiveInit /\ [][Next]_vars /\ WF_pc(ReaderRuns)

\* now() is back at the head of its loop after a retry test failed
RestartState == pc = "in1" /\ (Pair2 # Pair1 \/ Pair3 # Pair1)

\* C25: a now() call restarts only after a handler invocation that ran during
\* the iteration, so a call no invocation overlaps returns after one pass;
\* and every call, overlapped by the finitely many invocations of a bounded
\* run, returns: no step of it waits for anything
C25_ObstructionFree ==
    /\ [](RestartState => InvocationsAt(in1) < Invocations)
    /\ (pc # "ret") ~> (pc = "ret")

\* A call overlapped by two handler invocations is back at the head of its loop
C25_Witness == RestartState /\ Pair2 # Pair1 /\ Invocations > 1

-----------------------------------------------------------------------------
\* A SysTick whose reload of VAL is visible before PENDST is set

\* Hardware: the reload at VAL = 0, PENDST not yet set
HwReloadVal ==
    /\ current_systick = 0
    /\ reloads < MaxReloads
    /\ ~pendst_is_pending
    /\ unserviced = 0
    /\ current_systick' = reload_value
    /\ reloads' = reloads + 1
    /\ unserviced' = unserviced + 1
    /\ UNCHANGED <<timer, systick_has_wrapped, pendst_is_pending, config, sampled, service, locals,
                   observer, missed>>

\* Hardware: PENDST becomes set for the reload that has happened
HwSetPendst ==
    /\ unserviced > 0
    /\ ~pendst_is_pending
    /\ pendst_is_pending' = TRUE
    /\ UNCHANGED <<timer, current_systick, systick_has_wrapped, config, sampled, service, locals,
                   observer, history>>

SplitNext == HwCountDown \/ HwReloadVal \/ HwSetPendst \/ IsrService \/ NowStep

SpecSplit == Init /\ [][SplitNext]_vars

\* C28: with the reload visible before PENDST is set, a now() call in that
\* window never returns less than an earlier reading
C28_MonotonicInWindow == pc = "ret" => Leq(last_seen_time, current_time)

\* C28 (amended): a now() call that finds PENDST set or reads a larger VAL the
\* second time never returns less than an earlier reading; any other call
\* returns at most one wrap period, rounded up to whole ticks, less
C28_WitnessedWrapMonotonic ==
    pc = "ret" =>
        /\ (is_pending \/ val_after > val_before) => Leq(last_seen_time, current_time)
        /\ Leq(last_seen_time, Add(current_time, Add(PeriodJump(1), One)))

\* A call has returned that saw the reload between its two VAL reads while
\* PENDST was not yet set, after an earlier reading
C28_Witness ==
    /\ pc = "ret" /\ ~is_pending /\ val_after > val_before
    /\ last_seen_time # Zero /\ Less(last_seen_time, current_time)

-----------------------------------------------------------------------------
\* C31: with the handler run only when PENDST is set and no reload while
\* PENDST is set, the reloads since the start equal the advance of the wrap
\* count plus one if PENDST is set, modulo 2^64: the wrap count never runs
\* ahead of the reloads and equals them when no wrap awaits service
C31_WrapCountTracksReloads ==
    \E w0 \in StartWraps :
        WrappingAdd64(WrapCount(inner_wraps, outer_wraps),
                      IF pendst_is_pending THEN One ELSE Zero)
            = WrappingAdd64(w0, FromInt(reloads))

\* The second reload, across the carry, awaits service
C31_Witness ==
    /\ pendst_is_pending /\ reloads = 2
    /\ inner_wraps = U32Max /\ outer_wraps = Zero

-----------------------------------------------------------------------------
\* The observer above the handler, with the diagnosis of check_timer_monotonic

\* check_timer_monotonic: now < *last_now, diagnose_timing_violation, panic
IsrDiagnose ==
    /\ pc = "ret"
    /\ Less(current_time, last_seen_time)
    /\ ~DiagnosePanics(current_time, last_seen_time, systick_freq)
    /\ diagnosis' =
         DiagnoseTimingViolation(reload_value, current_time, last_seen_time, systick_freq)
    /\ pc' = "panic"
    /\ UNCHANGED <<timer, hardware, config, sampled, isr, locals, readings, history>>

\* The observer stops at the panic
FrameNext == IsrDiagnose \/ (pc # "panic" /\ IsrNext)

SpecFrame == IsrInit /\ [][FrameNext]_vars

\* A step of the handler's code, of now(), of diagnose_timing_violation
HandlerCodeStep == isr[1].pc # "idle" /\ isr' # isr
ReaderStep == pc' = "ret" /\ <<locals, observer>>' # <<locals, observer>>
DiagnoseStep == pc' = "panic" /\ pc # "panic"

\* now() is called in the state in which its last call read everything
NothingSince ==
    /\ pc = "ret"
    /\ in1 = inner_wraps /\ out1 = outer_wraps
    /\ val_after = current_systick /\ is_pending = pendst_is_pending

\* C32: the handler's code changes nothing but inner_wraps, outer_wraps and
\* COUNTFLAG; now() and diagnose_timing_violation change no counter, no
\* hardware register and no configuration, so a now() call made with nothing
\* in between returns what the call before it returned
C32_Frames ==
    [][/\ HandlerCodeStep
            => UNCHANGED <<current_systick, pendst_is_pending, reload_value, multiplier,
                           shift, config>>
       /\ (ReaderStep \/ DiagnoseStep) => UNCHANGED <<timer, hardware, config>>
       /\ (ReaderStep /\ NothingSince) => current_time' = current_time]_vars

\* After a handler run two now() calls in a row have returned the same value
C32_Witness ==
    /\ pc = "ret" /\ isr[1].pc = "idle" /\ reloads > 0 /\ unserviced = 0
    /\ NothingSince /\ last_seen_time = current_time /\ current_time # Zero

-----------------------------------------------------------------------------
\* The handler and now() called by a test that sets the hardware flags

\* set_systick_has_wrapped(true)
SetCountflag ==
    /\ ~systick_has_wrapped
    /\ systick_has_wrapped' = TRUE
    /\ UNCHANGED <<timer, current_systick, pendst_is_pending, config, sampled, service, locals,
                   observer, history>>

\* set_pendst_pending(true)
SetPendstPending ==
    /\ ~pendst_is_pending
    /\ pendst_is_pending' = TRUE
    /\ UNCHANGED <<timer, current_systick, systick_has_wrapped, config, sampled, service, locals,
                   observer, history>>

FlagNext == NestedNext \/ SetCountflag \/ SetPendstPending \/ StressNow

SpecFlag == NestedInit /\ [][FlagNext]_vars

\* C33: read_systick_countflag returns the value COUNTFLAG had and leaves it
\* false, so a read that follows a read returns false and COUNTFLAG is false
\* after a handler invocation whatever it was on entry; is_systick_pending
\* returns PENDST and leaves it as it was
C33_CountflagReadClears ==
    [][/\ \A i \in Invocation :
            (isr[i].pc \in {"countflag", "idle"} /\ isr'[i].pc \in {"load_inner", "done"})
                => /\ isr'[i].flag = systick_has_wrapped
                   /\ ~systick_has_wrapped'
                   /\ pendst_is_pending' = pendst_is_pending
       /\ ReaderStep
            => /\ is_pending' = pendst_is_pending
               /\ pendst_is_pending' = pendst_is_pending]_vars

\* Two invocations in a row: the first read COUNTFLAG set, the second clear;
\* and now() has read PENDST set and left it set
C33_Witness ==
    /\ NestedDone /\ isr[1].flag /\ ~isr[2].flag /\ ~systick_has_wrapped
    /\ pc = "ret" /\ is_pending /\ pendst_is_pending

-----------------------------------------------------------------------------
\* The cycles truly elapsed when n reloads had happened and VAL read val,
\* counted like the wrap count from the count Spec started from
ElapsedCycles(n, val) ==
    Add(Mul(Add(StartCount, FromInt(n)), FromInt(reload_value + 1)),
        FromInt(reload_value - val))

\* SpecSampled: the concurrency model of Spec with the reloads there had been
\* at each of now()'s two VAL reads kept as history
SampleValBefore == ReadValBefore /\ sampled' = <<reloads, sampled[2]>>

SampleValAfter == ReadValAfter /\ sampled' = <<sampled[1], reloads>>

SampledNow ==
    \/ LoadIn1 \/ LoadOut1 \/ SampleValBefore \/ LoadIn2 \/ LoadOut2
    \/ LoadPending \/ SampleValAfter \/ LoadIn3 \/ LoadOut3

SampledNext == HwTick \/ IsrService \/ SampledNow

SpecSampled == Init /\ [][SampledNext]_vars

\* C34: with atomic reloads, an atomic handler and at most one wrap awaiting
\* service, the cycle count a returning now() scales lies between the cycles
\* elapsed at the call's first VAL read and those elapsed at its second
C34_CyclesBetweenValReads ==
    pc = "ret" =>
        /\ Leq(ElapsedCycles(sampled[1], val_before), total_cycles)
        /\ Leq(total_cycles, ElapsedCycles(sampled[2], val_after))

\* A call returned a count below the cycles elapsed at its second VAL read:
\* the reload came after its PENDST read and VAL had not risen
C34_Witness ==
    /\ pc = "ret" /\ sampled[2] = sampled[1] + 1
    /\ Less(total_cycles, ElapsedCycles(sampled[2], val_after))
    /\ Less(ElapsedCycles(sampled[1], val_before), total_cycles)

-----------------------------------------------------------------------------
\* ceil(c / 2^s)
CeilShift(c, s) == Div(Add(c, Sub(Pow2(s), One)), Pow2(s))

\* The ticks the scaler falls short of floor(c * f_out / f_src)
Deficit(c, ticks) == Sub(FloorRatio(c, tick_hz, systick_freq), ticks)

\* C35: for every accepted configuration and every cycle count C whose
\* result fits in 64 bits, the scaled value is at most floor(C * f_out / f_src)
\* and falls short of it by at most ceil(C / 2^s)
C35_DeficitBounded ==
    (/\ pc = "ret" /\ shift \in 32..63
     /\ Leq(FloorRatio(total_cycles, tick_hz, systick_freq), U64Max)) =>
        /\ Leq(current_time, FloorRatio(total_cycles, tick_hz, systick_freq))
        /\ Leq(Deficit(total_cycles, current_time), CeilShift(total_cycles, shift))

-----------------------------------------------------------------------------
(***************************************************************************)
(* SpecScale: the scaling step of now() on its own.  A timer of one of the *)
(* rates below scales one cycle count after another, the counts drawn from *)
(* both ends of the u64 range and from around the counts at which the      *)
(* shifted product passes 2^64.                                            *)
(***************************************************************************)
MaxOffset == 1       \* distance of the cycle counts scaled from their bases

\* (tick_hz, systick_freq): 1:1, 1:2, 1:12, 2:1 and 1000:1
ScaleConfigs ==
    { <<FromInt(1000), FromInt(1000)>>,
      <<FromInt(1000), FromInt(2000)>>,
      <<FromInt(1000), FromInt(12000)>>,
      <<FromInt(2000), FromInt(1000)>>,
      <<FromInt(1000000), FromInt(1000)>> }

\* Cycle counts: 0, 2^32 (the product of 1:1 leaves 64 bits), the last count
\* whose thousandfold fits in 64 bits, 2^63, and the last counts of u64
ScaleCycles ==
    { Add(b, FromInt(k)) :
        b \in {Zero, Pow2(32), Div(U64Max, FromInt(1000)), Pow2(63)}, k \in 0..MaxOffset }
    \cup { Sub(U64Max, FromInt(k)) : k \in 0..MaxOffset }

ScaleInit ==
    /\ \E r \in ScaleConfigs : Construct(r[1], SmallReload, r[2], Zero, SmallReload)
    /\ ObserverInit
    /\ reloads = 0 /\ unserviced = 0 /\ missed = 0

\* now(): total_cycles scaled to ticks, for the next cycle count
ScaleStep ==
    /\ \E c \in ScaleCycles :
         /\ total_cycles' = c
         /\ current_time' = Scale(c, multiplier, shift)
    /\ prev_cycles' = total_cycles
    /\ last_seen_time' = current_time
    /\ pc' = "ret"
    /\ UNCHANGED <<timer, hardware, config, sampled, service, locals, history>>

SpecScale == ScaleInit /\ [][ScaleStep]_vars

\* The shifted product of the cycle count c, not reduced to 64 bits
ShiftedProduct(c) == ShiftR(Mul(c, multiplier), shift)

\* C36 (as stated): for all cycle counts C1 <= C2 in [0, 2^64 - 1] the scaled
\* outputs satisfy Scaler(C1) <= Scaler(C2), including when the shifted
\* 128-bit product is truncated to 64 bits
C36_ScalerMonotonic ==
    Leq(prev_cycles, total_cycles) => Leq(last_seen_time, current_time)

\* C36 (amended): for all cycle counts C1 <= C2 in [0, 2^64 - 1] whose shifted
\* product (C2 * M) >> s fits in 64 bits, as it always does when M <= 2^s,
\* Scaler(C1) <= Scaler(C2); a shifted product of 2^64 or more is reduced
\* modulo 2^64
C36_ScalerMonotonicWithinU64 ==
    /\ (Leq(prev_cycles, total_cycles) /\ Leq(ShiftedProduct(total_cycles), U64Max))
          => Leq(last_seen_time, current_time)
    /\ Leq(multiplier, Pow2(shift)) => Leq(ShiftedProduct(total_cycles), U64Max)
    /\ current_time = Low(ShiftedProduct(total_cycles), 64)

\* Two counts scaled on the 128-bit path at a rate above 1:1, both results
\* within 64 bits, the larger count giving the larger result
C36_Witness ==
    /\ pc = "ret"
    /\ Less(Pow2(shift), multiplier)
    /\ Less(prev_cycles, total_cycles)
    /\ OverflowingMul64(prev_cycles, multiplier).overflow
    /\ Leq(ShiftedProduct(total_cycles), U64Max)
    /\ Less(last_seen_time, current_time)

-----------------------------------------------------------------------------
(***************************************************************************)
(* SpecLegacy: the COUNTFLAG-based now() of src/src/timer.rs, called by a  *)
(* single-threaded test between the hardware's steps.  The counter counts  *)
(* down and wraps (setting COUNTFLAG), the handler services the wrap, and  *)
(* now() runs to its return.  last_seen_time is the test's t1, the last    *)
(* reading taken while no wrap awaited service.                            *)
(***************************************************************************)
\* now() of src/src/timer.rs: (wraps_u64, final_val) of the coherent snapshot;
\* flag is COUNTFLAG at the read, v_now the VAL read after it
LegacySnapshot(wraps_pre, wraps_post, v1, flag, v_now) ==
    IF wraps_pre = wraps_post
    THEN IF CountflagRead(flag)[1]
         THEN <<CompensatedWraps(wraps_pre, TRUE), v_now>>
         ELSE <<wraps_pre, v1>>
    ELSE <<wraps_post, v_now>>

\* now() of src/src/timer.rs: COUNTFLAG after the call, read (and cleared)
\* only when the two wrap counts agree
LegacyCountflagAfter(wraps_pre, wraps_post, flag) ==
    IF wraps_pre = wraps_post THEN CountflagRead(flag)[2] ELSE flag

\* now() of src/src/timer.rs, run to its return with nothing in between
LegacyNow ==
    /\ LET wraps == WrapCount(inner_wraps, outer_wraps)
           snap == LegacySnapshot(wraps, wraps, current_systick, systick_has_wrapped,
                                  current_systick)
           cycles == TotalCycles(snap[1], reload_value, snap[2])
           ticks == Scale(cycles, multiplier, shift)
       IN  /\ total_cycles' = cycles
           /\ current_time' = ticks
           /\ last_seen_time' = IF unserviced = 0 THEN ticks ELSE last_seen_time
           /\ systick_has_wrapped' =
                 LegacyCountflagAfter(wraps, wraps, systick_has_wrapped)
    /\ in1' = inner_wraps /\ in2' = inner_wraps
    /\ out1' = outer_wraps /\ out2' = outer_wraps
    /\ val_before' = current_systick
    /\ val_after' = current_systick
    /\ pc' = "ret"
    /\ UNCHANGED <<timer, current_systick, pendst_is_pending, config, sampled, service,
                   is_pending, in3, out3, prev_cycles, history>>

LegacyNext == HwCountDown \/ HwWrap \/ IsrService \/ LegacyNow

SpecLegacy == Init /\ [][LegacyNext]_vars

\* C37: after a hardware wrap that set COUNTFLAG and before systick_handler
\* runs, every call of the COUNTFLAG-based now(), not only the first, returns
\* a value >= the reading taken before the wrap
C37_LegacyMonotonicAcrossWrap ==
    unserviced > 0 => Leq(last_seen_time, current_time)

=============================================================================
